---- MODULE Spec2Model ----
(***************************************************************************)
(* Verification model of the localisation tooling of                      *)
(* concert-of-europe-reignited: the cross-file duplicate cleanup           *)
(* (complete_cleanup.py, report_remaining_duplicates.py), the column       *)
(* normalizers, the line-ending fixers and the V2LocKit Fixer.             *)
(*                                                                         *)
(* Text is modelled character by character: a string is a sequence of      *)
(* one-character strings, so that split, strip, join and replace are       *)
(* computed as Python computes them.                                       *)
(***************************************************************************)
EXTENDS Integers, Sequences, FiniteSets, Bags, TLC

\* ------------------------------------------------------------------------
\* Characters and the Python string primitives the scripts use
\* ------------------------------------------------------------------------

CR == "CR"
LF == "LF"
TAB == "TAB"

\* the characters str.strip() removes
Whitespace == {" ", TAB, CR, LF}

RECURSIVE LStrip(_)
LStrip(s) ==
    IF s # <<>> /\ Head(s) \in Whitespace THEN LStrip(Tail(s)) ELSE s

RECURSIVE RStrip(_)
RStrip(s) ==
    IF s # <<>> /\ s[Len(s)] \in Whitespace
    THEN RStrip(SubSeq(s, 1, Len(s) - 1))
    ELSE s

\* str.strip()
Strip(s) == RStrip(LStrip(s))

\* sep in s
Contains(s, sep) == \E i \in 1..Len(s) : s[i] = sep

\* index of the first occurrence of the character sep in s (0 when absent)
RECURSIVE FirstIndex(_, _, _)
FirstIndex(s, sep, i) ==
    IF i > Len(s) THEN 0
    ELSE IF s[i] = sep THEN i
    ELSE FirstIndex(s, sep, i + 1)

\* str.split(sep) for a one-character separator
RECURSIVE Split(_, _)
Split(s, sep) ==
    LET i == FirstIndex(s, sep, 1)
    IN  IF i = 0 THEN <<s>>
        ELSE <<SubSeq(s, 1, i - 1)>> \o Split(SubSeq(s, i + 1, Len(s)), sep)

\* sep.join(parts)
RECURSIVE Join(_, _)
Join(parts, sep) ==
    IF parts = <<>> THEN <<>>
    ELSE IF Len(parts) = 1 THEN parts[1]
    ELSE parts[1] \o sep \o Join(Tail(parts), sep)

\* membership in a sequence, and the set of its elements
InSeq(x, s) == \E i \in 1..Len(s) : s[i] = x
Range(s) == {s[i] : i \in 1..Len(s)}

\* sequences over S of length at most n
SeqsUpTo(S, n) == UNION {[1..k -> S] : k \in 0..n}

\* ------------------------------------------------------------------------
\* Cross-file duplicate cleanup (complete_cleanup.py)
\* ------------------------------------------------------------------------

\* bound: lines in the whole initial directory
MaxTotalLines == 4

\* cap of the iteration counter, above what the loop can reach
MaxIterations == MaxTotalLines + 2

\* File names as character codes ('.' = 46, 'a' = 97, 'b' = 98); the common
\* "csv" after the dot is left out.  a.csv, ab.csv, b.csv
FileNames == {<<97, 46>>, <<97, 98, 46>>, <<98, 46>>}

\* The lines a file may hold: a keyed line "A;", a keyed line with a leading
\* blank " B;", a line without any semicolon "A", and a comment line "#A;".
LineSet ==
    { <<"A", ";">>, <<" ", "B", ";">>, <<"A">>, <<"#", "A", ";">> }

\* lexicographic comparison of two names (Path.__lt__ on same-directory paths)
RECURSIVE LexLess(_, _)
LexLess(a, b) ==
    IF b = <<>> THEN FALSE
    ELSE IF a = <<>> THEN TRUE
    ELSE IF Head(a) # Head(b) THEN Head(a) < Head(b)
    ELSE LexLess(Tail(a), Tail(b))

\* sorted(names, reverse=True)
RECURSIVE SortedReverse(_)
SortedReverse(S) ==
    IF S = {} THEN <<>>
    ELSE LET m == CHOOSE x \in S : \A y \in S \ {x} : LexLess(y, x)
         IN  <<m>> \o SortedReverse(S \ {m})

\* csv.reader(f, delimiter=';') on a line without quote characters: row[0]
RowFirst(line) == Split(line, ";")[1]

\* the key load_all_keys records for a line, <<>> when the line is skipped
LoadedKey(line) ==
    LET key == Strip(RowFirst(line))
    IN  IF line = <<>> \/ RowFirst(line) = <<>> THEN <<>>
        ELSE IF key # <<>> /\ Head(key) # "#" THEN key
        ELSE <<>>

\* every line a file can hold: the initial lines and the removal comments
\* (defined below as RemovedComment) of their keys
AllLines ==
    LineSet \cup {<<"#", " ">> \o LoadedKey(l) \o <<" ", "removed">> : l \in LineSet}

\* LoadedKey tabulated over the lines of the model
LoadedKeyOf == [l \in AllLines |-> LoadedKey(l)]

\* the lines of a file that insert a new key into the dict of load_all_keys
InsertingLines(lines) ==
    {i \in 1..Len(lines) :
        /\ LoadedKeyOf[lines[i]] # <<>>
        /\ \A j \in 1..(i - 1) : LoadedKeyOf[lines[j]] # LoadedKeyOf[lines[i]]}

\* the keys of one file as the dict holds them: distinct, in insertion order
KeysOfLines(lines) ==
    LET ins == InsertingLines(lines)
    IN  [n \in 1..Cardinality(ins) |->
            LoadedKeyOf[lines[CHOOSE i \in ins :
                                  Cardinality({j \in ins : j <= i}) = n]]]

\* load_all_keys: (files_with_priority, file_keys)
FilesWithPriority == SortedReverse(FileNames)
LoadAllKeys(fs) == [f \in FileNames |-> KeysOfLines(fs[f])]

\* the first key of lower (in dict order) that higher holds, <<>> if none:
\* the inner "for key ... if key in ...: add; break"
RECURSIVE FirstCommon(_, _)
FirstCommon(lower, higher) ==
    IF lower = <<>> THEN <<>>
    ELSE IF InSeq(Head(lower), higher) THEN Head(lower)
    ELSE FirstCommon(Tail(lower), higher)

\* find_all_dead_keys: filename -> set of keys to remove ({} = no entry)
FindAllDeadKeys(fwp, fk) ==
    [f \in FileNames |->
        LET i == CHOOSE n \in 1..Len(fwp) : fwp[n] = f
        IN  {FirstCommon(fk[f], fk[fwp[j]]) : j \in 1..(i - 1)} \ {<<>>}]

\* the comment remove_keys_from_file writes in place of a removed line
RemovedComment(key) == <<"#", " ">> \o key \o <<" ", "removed">>

\* the key remove_keys_from_file reads from a line
LineKey(line) ==
    IF line # <<>> /\ Contains(line, ";") THEN Strip(Split(line, ";")[1]) ELSE <<>>

\* remove_keys_from_file: "if line_key and line_key in keys_to_remove"
ShouldRemove(line, keys) == LineKey(line) # <<>> /\ LineKey(line) \in keys

\* remove_keys_from_file: the new lines and the number of removed lines
RemoveKeysFromFile(lines, keys) ==
    [lines |-> [i \in 1..Len(lines) |->
                   IF ShouldRemove(lines[i], keys)
                   THEN RemovedComment(LineKey(lines[i]))
                   ELSE lines[i]],
     removed |-> Cardinality({i \in 1..Len(lines) : ShouldRemove(lines[i], keys)})]

\* "for filename, keys in sorted(dead_keys.items())": every file with an entry
RemoveAllDead(fs, dead) ==
    [f \in FileNames |->
        IF dead[f] # {} THEN RemoveKeysFromFile(fs[f], dead[f])
        ELSE [lines |-> fs[f], removed |-> 0]]

\* "if not dead_keys": the defaultdict has no entry
NoDeadKeys(dead) == \A f \in FileNames : dead[f] = {}

RECURSIVE SumOver(_, _)
SumOver(S, val) ==
    IF S = {} THEN 0
    ELSE LET x == CHOOSE y \in S : TRUE
         IN  val[x] + SumOver(S \ {x}, val)

\* a loop without the "no keys removed" exit
LoopStopsNever(iter_removed) == FALSE

\* "if iter_removed == 0: break"
LoopStops(iter_removed) == iter_removed = 0

\* one pass of the "while True" loop of main() as a function of the
\* directory: load, find, remove
MainPass(fs) ==
    LET fk == LoadAllKeys(fs)
        dead == FindAllDeadKeys(FilesWithPriority, fk)
        res == RemoveAllDead(fs, dead)
        iter_removed == SumOver(FileNames, [f \in FileNames |-> res[f].removed])
    IN  IF NoDeadKeys(dead)
        THEN [files |-> fs, stop |-> TRUE]
        ELSE [files |-> [f \in FileNames |-> res[f].lines],
              stop |-> LoopStops(iter_removed)]

\* the directory the loop of main() leaves behind when started on fs
RECURSIVE MainLoop(_)
MainLoop(fs) ==
    LET p == MainPass(fs)
    IN  IF p.stop THEN p.files ELSE MainLoop(p.files)

\* analyze_duplicates: per lower-priority file the list of (key, higher_file)
AnalyzeDuplicates(fwp, fk) ==
    [f \in FileNames |->
        LET i == CHOOSE n \in 1..Len(fwp) : fwp[n] = f
            hit(j) == FirstCommon(fk[f], fk[fwp[j]])
            F[j \in 0..(i - 1)] ==
                IF j = 0 THEN <<>>
                ELSE IF hit(j) # <<>> THEN Append(F[j - 1], <<hit(j), fwp[j]>>)
                ELSE F[j - 1]
        IN  F[i - 1]]

\* ------------------------------------------------------------------------
\* Column normalizers: Fixer._fix_line (v2lockit/core/fixer.py), the per-line
\* rewrite of fix_csv_file (fix-csv-structure.py) and
\* LocalisationFixerV2.fix_line (fix-localisation.py)
\* ------------------------------------------------------------------------

\* Fixer.TARGET_COLUMNS
TARGET_COLUMNS == 19

\* the terminator 'x'
X == <<"x">>

\* "while len(parts) < k: parts.append('')"
PadTo(parts, k) ==
    IF Len(parts) < k THEN parts \o [i \in 1..(k - Len(parts)) |-> <<>>] ELSE parts

\* a final pass that only looks at the field as it is written
EnsureXExact(parts) ==
    IF Len(parts) >= 15 /\ parts[15] = <<>>
    THEN [parts EXCEPT ![15] = X]
    ELSE parts

\* "if len(parts) >= 15 and parts[14].strip() != 'x': parts[14] = 'x'"
\* (Python index 14 is field 15)
EnsureX(parts) ==
    IF Len(parts) >= 15 /\ Strip(parts[15]) # X
    THEN [parts EXCEPT ![15] = X]
    ELSE parts

\* Fixer._fix_line, the branch "len(parts) < TARGET_COLUMNS"
FixShort(parts) ==
    LET padded == PadTo(parts, 14)
        withX == IF Len(padded) < 15 THEN Append(padded, X)
                 ELSE IF Strip(padded[15]) # X THEN [padded EXCEPT ![15] = X]
                 ELSE padded
    IN  PadTo(withX, TARGET_COLUMNS)

\* Fixer._fix_line, the branch "len(parts) > TARGET_COLUMNS"
FixLong(parts) == PadTo(Append(SubSeq(parts, 1, 14), X), TARGET_COLUMNS)

\* Fixer._fix_line
Fixer_fix_line(line) ==
    LET parts == Split(line, ";")
        sized == IF Len(parts) < TARGET_COLUMNS THEN FixShort(parts)
                 ELSE IF Len(parts) > TARGET_COLUMNS THEN FixLong(parts)
                 ELSE parts
    IN  Join(EnsureX(sized), <<";">>)

\* str.rstrip('\r\n')
RECURSIVE RStripNewlines(_)
RStripNewlines(s) ==
    IF s # <<>> /\ s[Len(s)] \in {CR, LF}
    THEN RStripNewlines(SubSeq(s, 1, Len(s) - 1))
    ELSE s

\* fix_csv_file: the loop that fills clean_parts
RECURSIVE CleanParts(_, _)
CleanParts(parts, clean_parts) ==
    IF parts = <<>> THEN clean_parts
    ELSE IF Strip(Head(parts)) = X
         THEN CleanParts(Tail(parts),
                         IF clean_parts = <<>> THEN <<Head(parts)>> ELSE clean_parts)
         ELSE CleanParts(Tail(parts), Append(clean_parts, Head(parts)))

\* a sizing that truncates but forgets to pad
CsvSizeNoPad(clean_parts) ==
    IF Len(clean_parts) >= 14 THEN SubSeq(clean_parts, 1, 14) ELSE clean_parts

\* fix_csv_file: new_parts, the first 14 parts, padded if there are fewer
CsvSize(clean_parts) ==
    IF Len(clean_parts) >= 14 THEN SubSeq(clean_parts, 1, 14)
    ELSE PadTo(clean_parts, 14)

\* fix_csv_file: the rewrite of one line of text.split('\n')
fix_csv_line(line) ==
    IF Strip(line) = <<>> THEN <<>>
    ELSE LET clean_parts == CleanParts(Split(RStripNewlines(line), ";"), <<>>)
         IN  Join(PadTo(Append(CsvSize(clean_parts), X), 19), <<";">>)

\* LocalisationFixerV2.fix_line, "Resize needed"
V2Resize(parts, target_columns) ==
    IF Len(parts) > target_columns
    THEN [SubSeq(parts, 1, target_columns) EXCEPT ![target_columns] = X]
    ELSE LET pruned == IF Strip(parts[Len(parts)]) = X
                       THEN SubSeq(parts, 1, Len(parts) - 1)
                       ELSE parts
         IN  Append(PadTo(pruned, target_columns - 1), X)

\* LocalisationFixerV2.fix_line: the fixed line (first component of the result)
V2_fix_line(line, target_columns) ==
    LET original == RStripNewlines(line)
        parts == Split(original, ";")
    IN  IF Strip(original) = <<>> \/ Head(Strip(original)) = "#" THEN original
        ELSE IF Len(parts) = target_columns
        THEN Join(IF Strip(parts[Len(parts)]) # X
                  THEN [parts EXCEPT ![Len(parts)] = X]
                  ELSE parts, <<";">>)
        ELSE Join(V2Resize(parts, target_columns), <<";">>)

\* bound: the number of fields of an input line
MaxFields == 21

\* bound: how often a normalizer is applied to its own output
MaxApplications == 2

\* what a field of an input line may hold
FieldTokens ==
    { <<>>, <<"a">>, <<"x">>, <<" ", "x">>, <<"#", "a">>, <<" ">> }

\* what may follow the last field of an input line
LineTails == { <<>>, <<CR>>, <<LF>> }

\* the target column counts LocalisationFixerV2 is run with (taken from a header)
V2Targets == {1, 2, 3, TARGET_COLUMNS}

\* the normalizers
Normalizers == {"Fixer._fix_line", "fix_csv_file", "fix_line"}

\* An input line: n fields, all holding base except field p (token tp) and
\* field q (token tq), followed by tail.
InputLine(n, base, p, tp, q, tq, tail) ==
    Join([i \in 1..n |-> IF i = p THEN tp ELSE IF i = q THEN tq ELSE base], <<";">>)
        \o tail

\* the field positions where the normalizers branch, within a line of n fields
SpecialPositions(n) == {1, 2, 14, 15, 16, 19, 20, n} \cap (1..n)

InputLines ==
    UNION { { InputLine(n, base, p, tp, q, tq, tail) :
                base \in {<<>>, <<"a">>}, p \in SpecialPositions(n), tp \in FieldTokens,
                q \in {15, n} \cap (1..n), tq \in FieldTokens, tail \in LineTails } :
            n \in 1..MaxFields }

\* one application of normalizer f
Normalize(f, line, target_columns) ==
    IF f = "Fixer._fix_line" THEN Fixer_fix_line(line)
    ELSE IF f = "fix_csv_file" THEN fix_csv_line(line)
    ELSE V2_fix_line(line, target_columns)

\* ------------------------------------------------------------------------
\* The line-ending fixers: fix-line-endings.py, fix_line_endings.py and
\* fix_line_endings of fix_localisation_encoding.py
\* ------------------------------------------------------------------------

\* bytes.replace / str.replace: the occurrences of old, found from the left
\* and not overlapping, each replaced by new
RECURSIVE Replace(_, _, _)
Replace(s, old, new) ==
    IF Len(s) < Len(old) THEN s
    ELSE IF SubSeq(s, 1, Len(old)) = old
         THEN new \o Replace(SubSeq(s, Len(old) + 1, Len(s)), old, new)
         ELSE <<s[1]>> \o Replace(Tail(s), old, new)

\* a fixer that leaves out the cleanup of the third carriage return
CollapseTripleSkipped(fixed) == fixed

\* fix_file_line_endings: fixed.replace(b'\r\r\r\n', b'\r\r\n')
CollapseTriple(fixed) == Replace(fixed, <<CR, CR, CR, LF>>, <<CR, CR, LF>>)

\* a fixer that leaves out the first step
NormalizeCrlfSkipped(content) == content

\* fix_file_line_endings: normalized = content.replace(b'\r\n', b'\n')
NormalizeCrlf(content) == Replace(content, <<CR, LF>>, <<LF>>)

\* fix_file_line_endings: the content it computes
fix_file_line_endings(content) ==
    LET normalized == NormalizeCrlf(content)
        fixed == Replace(normalized, <<LF>>, <<CR, CR, LF>>)
    IN  CollapseTriple(fixed)

\* fix_line_endings of fix_line_endings.py: the content it computes
fix_line_endings_lf(content) ==
    Replace(Replace(Replace(content, <<CR, CR, LF>>, <<LF>>),
                    <<CR, LF>>, <<LF>>),
            <<CR>>, <<LF>>)

\* fix_line_endings of fix_localisation_encoding.py: the content it computes
fix_line_endings_crlf(content) ==
    Replace(Replace(content, <<CR, LF>>, <<LF>>), <<LF>>, <<CR, LF>>)

\* the longest file content tried, in bytes
MaxBytes == 6

\* how many times a line-ending fixer is run on the same file
MaxRuns == 2

\* the bytes of the files tried: a byte of text and the two line-ending bytes
EolBytes == {"a", CR, LF}

EolFixers == {"fix_file_line_endings", "fix_line_endings", "fix_line_endings.crlf"}

EolFix(f, content) ==
    IF f = "fix_file_line_endings" THEN fix_file_line_endings(content)
    ELSE IF f = "fix_line_endings" THEN fix_line_endings_lf(content)
    ELSE fix_line_endings_crlf(content)

\* ------------------------------------------------------------------------
\* V2LocKit Fixer.fix_file: bytes, code points and the two codecs
\*
\* A byte is a string: an ASCII byte is its character, any other byte its two
\* hexadecimal digits.  A character of decoded text is a string too: an ASCII
\* character is itself, any other character is "U+" and its code point.
\* ------------------------------------------------------------------------

\* the bytes above 0x7F that occur in the files tried and in what is written
NonAsciiBytes == {"C3", "E4", "EF", "BB", "BF", "81", "FB", "FF", "C1"}

\* UTF-8: the bytes 10xxxxxx
ContinuationBytes == {"BB", "BF", "81"}

\* UTF-8: the lead byte of a two-byte sequence
TwoByteLeads == {"C3"}

\* UTF-8: the lead bytes of a three-byte sequence
ThreeByteLeads == {"E4", "EF"}

\* bytes([0xC3, c]).decode('utf-8')
Utf8Two == ("BB" :> "U+00FB") @@ ("BF" :> "U+00FF") @@ ("81" :> "U+00C1")

\* bytes([lead, c1, c2]).decode('utf-8')
Utf8Three ==
    <<"E4", "BB", "BB">> :> "U+4EFB" @@
    <<"E4", "BB", "BF">> :> "U+4EFF" @@
    <<"E4", "BB", "81">> :> "U+4EC1" @@
    <<"E4", "BF", "BB">> :> "U+4FFB" @@
    <<"E4", "BF", "BF">> :> "U+4FFF" @@
    <<"E4", "BF", "81">> :> "U+4FC1" @@
    <<"E4", "81", "BB">> :> "U+407B" @@
    <<"E4", "81", "BF">> :> "U+407F" @@
    <<"E4", "81", "81">> :> "U+4041" @@
    <<"EF", "BB", "BB">> :> "U+FEFB" @@
    <<"EF", "BB", "BF">> :> "U+FEFF" @@
    <<"EF", "BB", "81">> :> "U+FEC1" @@
    <<"EF", "BF", "BB">> :> "U+FFFB" @@
    <<"EF", "BF", "BF">> :> "U+FFFF" @@
    <<"EF", "BF", "81">> :> "U+FFC1" @@
    <<"EF", "81", "BB">> :> "U+F07B" @@
    <<"EF", "81", "BF">> :> "U+F07F" @@
    <<"EF", "81", "81">> :> "U+F041"

\* b'\xef\xbb\xbf'
BOM == <<"EF", "BB", "BF">>

\* content.decode('utf-8'): strict, [ok |-> FALSE] stands for UnicodeDecodeError
RECURSIVE Utf8Decode(_)
Utf8Decode(b) ==
    IF b = <<>> THEN [ok |-> TRUE, text |-> <<>>]
    ELSE IF b[1] \notin NonAsciiBytes
    THEN LET r == Utf8Decode(Tail(b))
         IN  [ok |-> r.ok, text |-> IF r.ok THEN <<b[1]>> \o r.text ELSE <<>>]
    ELSE IF b[1] \in TwoByteLeads /\ Len(b) >= 2 /\ b[2] \in ContinuationBytes
    THEN LET r == Utf8Decode(SubSeq(b, 3, Len(b)))
         IN  [ok |-> r.ok,
              text |-> IF r.ok THEN <<Utf8Two[b[2]]>> \o r.text ELSE <<>>]
    ELSE IF /\ b[1] \in ThreeByteLeads
            /\ Len(b) >= 3
            /\ b[2] \in ContinuationBytes
            /\ b[3] \in ContinuationBytes
    THEN LET r == Utf8Decode(SubSeq(b, 4, Len(b)))
         IN  [ok |-> r.ok,
              text |-> IF r.ok THEN <<Utf8Three[<<b[1], b[2], b[3]>>]>> \o r.text
                       ELSE <<>>]
    ELSE [ok |-> FALSE, text |-> <<>>]

\* Windows-1252, the characters of the bytes above 0x7F; 0x81 has none
Cp1252Char ==
    ("C3" :> "U+00C3") @@ ("E4" :> "U+00E4") @@ ("EF" :> "U+00EF") @@
    ("BB" :> "U+00BB") @@ ("BF" :> "U+00BF") @@ ("FB" :> "U+00FB") @@
    ("FF" :> "U+00FF") @@ ("C1" :> "U+00C1")

\* the replacement character a decode with errors='replace' puts
REPLACEMENT_CHARACTER == "U+FFFD"

\* raw_content.decode('cp1252', errors='replace')
Cp1252Decode(b) ==
    [i \in 1..Len(b) |->
        IF b[i] \notin NonAsciiBytes THEN b[i]
        ELSE IF b[i] \in DOMAIN Cp1252Char THEN Cp1252Char[b[i]]
        ELSE REPLACEMENT_CHARACTER]

\* the characters above U+007F that Windows-1252 has a byte for
Cp1252Byte ==
    ("U+00C3" :> "C3") @@ ("U+00E4" :> "E4") @@ ("U+00EF" :> "EF") @@
    ("U+00BB" :> "BB") @@ ("U+00BF" :> "BF") @@ ("U+00FB" :> "FB") @@
    ("U+00FF" :> "FF") @@ ("U+00C1" :> "C1")

\* the characters of decoded text that are not ASCII
NonAsciiChars ==
    {Utf8Two[c] : c \in DOMAIN Utf8Two} \cup
    {Utf8Three[t] : t \in DOMAIN Utf8Three} \cup
    {Cp1252Char[b] : b \in DOMAIN Cp1252Char} \cup {REPLACEMENT_CHARACTER}

\* whether character c can be encoded in Windows-1252
Encodable(c) == c \notin NonAsciiChars \/ c \in DOMAIN Cp1252Byte

HasUnencodable(text) == \E i \in 1..Len(text) : ~Encodable(text[i])

\* an encoder that raises UnicodeEncodeError
EncodeErrorsStrict == "strict"

\* Fixer.fix_file: the errors argument of fixed_content.encode('cp1252', ...)
EncodeErrors == "replace"

\* text.encode('cp1252', errors=errors): [ok |-> FALSE] stands for
\* UnicodeEncodeError
Cp1252Encode(text, errors) ==
    IF errors = "strict" /\ HasUnencodable(text)
    THEN [ok |-> FALSE, bytes |-> <<>>]
    ELSE [ok |-> TRUE,
          bytes |-> [i \in 1..Len(text) |->
                        IF text[i] \notin NonAsciiChars THEN text[i]
                        ELSE IF text[i] \in DOMAIN Cp1252Byte
                             THEN Cp1252Byte[text[i]]
                             ELSE "?"]]

\* whether sub occurs in s
ContainsSub(s, sub) ==
    \E i \in 1..(Len(s) - Len(sub) + 1) : SubSeq(s, i, i + Len(sub) - 1) = sub

StartsWith(s, prefix) ==
    Len(s) >= Len(prefix) /\ SubSeq(s, 1, Len(prefix)) = prefix

EndsWith(s, suffix) ==
    Len(s) >= Len(suffix) /\ SubSeq(s, Len(s) - Len(suffix) + 1, Len(s)) = suffix

\* Fixer.LINE_ENDING
LINE_ENDING == <<CR, CR, LF>>

\* Fixer._detect_encoding(content)
DetectEncoding(raw_content) ==
    IF StartsWith(raw_content, BOM) THEN "utf-8-bom"
    ELSE IF Utf8Decode(raw_content).ok THEN "utf-8"
    ELSE "cp1252"

\* Fixer.fix_file, "# Decode content"
DecodeContent(raw_content, original_encoding) ==
    IF original_encoding = "utf-8-bom"
    THEN Utf8Decode(SubSeq(raw_content, 4, Len(raw_content)))
    ELSE IF original_encoding = "utf-8" THEN Utf8Decode(raw_content)
    ELSE [ok |-> TRUE, text |-> Cp1252Decode(raw_content)]

\* an entry of FixResult.changes_made: the message and the number in it
Change(msg, n) == [msg |-> msg, n |-> n]

\* Fixer.fix_file, the entries of changes_made made while decoding
DecodeChanges(original_encoding) ==
    (IF original_encoding = "utf-8-bom"
     THEN <<Change("Removed UTF-8 BOM", 0)>> ELSE <<>>) \o
    (IF original_encoding = "utf-8-bom"
     THEN <<Change("Converted encoding from utf-8-bom to cp1252", 0)>>
     ELSE IF original_encoding = "utf-8"
     THEN <<Change("Converted encoding from utf-8 to cp1252", 0)>>
     ELSE <<>>)

\* Fixer.fix_file, "# Normalize line endings for processing" and the split
SplitLines(text) ==
    Split(Replace(Replace(Replace(text, <<CR, CR, LF>>, <<LF>>),
                          <<CR, LF>>, <<LF>>),
                  <<CR>>, <<LF>>),
          LF)

NotBlank(l) == Strip(l) # <<>>

\* Fixer.fix_file, the loop over the lines: what it keeps and what it counts
FixLines(lines) ==
    LET kept == SelectSeq(lines, NotBlank)
    IN  [fixed_lines |-> [i \in 1..Len(kept) |-> Fixer_fix_line(kept[i])],
         empty_lines_removed |->
             Cardinality({i \in 1..(Len(lines) - 1) : ~NotBlank(lines[i])}),
         columns_fixed |->
             Cardinality({i \in 1..Len(kept) :
                             Len(Split(kept[i], ";")) # TARGET_COLUMNS})]

\* Fixer.fix_file, the entries of changes_made made after the loop
LineChanges(raw_content, fixed) ==
    (IF fixed.empty_lines_removed > 0
     THEN <<Change("Removed empty line(s)", fixed.empty_lines_removed)>>
     ELSE <<>>) \o
    (IF fixed.columns_fixed > 0
     THEN <<Change("Fixed column count on line(s)", fixed.columns_fixed)>>
     ELSE <<>>) \o
    (IF ~ContainsSub(raw_content, <<CR, CR, LF>>) /\ ContainsSub(raw_content, <<LF>>)
     THEN <<Change("Fixed line endings to \\r\\r\\n", 0)>>
     ELSE <<>>)

\* Fixer.fix_file, "# Write fixed content": the text that is encoded
FixedContent(fixed_lines) ==
    LET joined == Join(fixed_lines, LINE_ENDING)
    IN  IF EndsWith(joined, LINE_ENDING) THEN joined ELSE joined \o LINE_ENDING

\* Fixer.fix_file, from the bytes read to the bytes to write: whether the
\* decoding succeeded, the decoded text, changes_made and the encoded
\* fixed_content
FixRun(raw_content) ==
    LET original_encoding == DetectEncoding(raw_content)
        decoded == DecodeContent(raw_content, original_encoding)
        fixed == FixLines(SplitLines(decoded.text))
    IN  [ok |-> decoded.ok,
         text |-> decoded.text,
         changes_made |->
             DecodeChanges(original_encoding) \o LineChanges(raw_content, fixed),
         encoded |-> Cp1252Encode(FixedContent(fixed.fixed_lines), EncodeErrors)]

\* how many lines a file tried has at most
MaxFileLines == 2

\* how many times fix_file is called on the file
MaxFixCalls == 2

\* a row of n fields: first in field 1, f15 in field 15, the others empty
FixerRow(n, first, f15) ==
    Join([i \in 1..n |-> IF i = 1 THEN first ELSE IF i = 15 THEN f15 ELSE <<>>],
         <<";">>)

\* the lines of the files tried, as bytes: blank lines, rows of 2, 19 and 20
\* fields, a row without its terminator 'x', and rows whose key holds UTF-8
\* of a Windows-1252 character, UTF-8 of a character Windows-1252 lacks, the
\* byte 0x81 and the byte 0xBF
FixerLineSet ==
    { <<>>, <<" ">>,
      FixerRow(19, <<"a">>, X), FixerRow(2, <<"a">>, <<>>),
      FixerRow(20, <<"a">>, X), FixerRow(19, <<"a">>, <<"a">>),
      FixerRow(19, <<"C3", "BF">>, X), FixerRow(19, <<"E4", "BB", "BF">>, X),
      FixerRow(19, <<"81">>, X), FixerRow(19, <<"BF">>, X) }

\* how a line of a file tried ends
Terminators == { <<LF>>, <<CR, LF>>, <<CR>>, <<CR, CR, LF>>, <<>> }

RECURSIVE Concat(_)
Concat(seqs) == IF seqs = <<>> THEN <<>> ELSE seqs[1] \o Concat(Tail(seqs))

\* the files tried: with or without a BOM, at most MaxFileLines lines
InitialFiles ==
    LET ended == {l \o t : l \in FixerLineSet, t \in Terminators}
    IN  {prefix \o Concat(ls) :
            prefix \in {<<>>, BOM}, ls \in SeqsUpTo(ended, MaxFileLines)}

\* a copy made once the file has been opened for writing
BackupAfterOpen(on_disk, stamp) == [stamp |-> stamp, bytes |-> <<>>]

\* Fixer._backup_file: shutil.copy2 copies the bytes of the file to the path
\* named after the time
BackupFile(on_disk, stamp) == [stamp |-> stamp, bytes |-> on_disk]

\* what can go wrong with the file system during a call
Faults == {"none", "read", "backup", "write"}

\* FixResult(file_path=file_path)
NewResult ==
    [success |-> TRUE, backup_path |-> 0, changes_made |-> <<>>, error |-> "None"]

\* a fixer that writes whatever dry_run says
WritesInDryRun(run, dry) == run.ok /\ run.changes_made # <<>>

\* Fixer.fix_file, "if result.changes_made and not self.dry_run"
FixWrites(run, dry) == run.ok /\ run.changes_made # <<>> /\ ~dry

\* whether fault f can happen in a call: the backup can only fail where one
\* is made, the write only where the file is written
FaultCanHappen(run, backup, dry, f) ==
    /\ f = "backup" => (FixWrites(run, dry) /\ backup)
    /\ f = "write" => FixWrites(run, dry)

\* Fixer.fix_file(file_path) on a file of bytes on_disk, run being
\* FixRun(on_disk): the FixResult returned (its backup_path is stamp, the time
\* of the backup, or 0 for None), whether the file was written, and its bytes
\* afterwards
FixFileOutcome(run, on_disk, backup, dry, f, stamp) ==
    LET writes == FixWrites(run, dry)
        backup_path ==
            IF writes /\ backup /\ f \notin {"read", "backup"} THEN stamp ELSE 0
        failed(error) ==
            [NewResult EXCEPT !.success = FALSE,
                              !.backup_path = backup_path,
                              !.changes_made = run.changes_made,
                              !.error = error]
    IN  [result |->
             IF f = "read"
             THEN [NewResult EXCEPT !.success = FALSE, !.error = "read error"]
             ELSE IF ~run.ok
             THEN [NewResult EXCEPT !.success = FALSE,
                                    !.error = "UnicodeDecodeError"]
             ELSE IF f = "backup" THEN failed("backup error")
             ELSE IF f = "write" THEN failed("write error")
             ELSE IF writes /\ ~run.encoded.ok THEN failed("UnicodeEncodeError")
             ELSE [NewResult EXCEPT !.backup_path = backup_path,
                                    !.changes_made = run.changes_made],
         written |-> f = "none" /\ writes /\ run.encoded.ok,
         file |->
             IF f = "none" /\ writes
             THEN (IF run.encoded.ok THEN run.encoded.bytes ELSE <<>>)
             ELSE on_disk]

\* ------------------------------------------------------------------------
\* The single-file scripts: each reads one file, and writes it back
\* ------------------------------------------------------------------------

\* open(input_file, 'r', encoding=...): the universal newlines of text mode,
\* applied to what was decoded
UniversalNewlines(decoded) ==
    Replace(Replace(decoded, <<CR, LF>>, <<LF>>), <<CR>>, <<LF>>)

\* '\ufeff'
BYTE_ORDER_MARK == "U+FEFF"

\* convert_utf8_to_ansi, "# Remove any BOM if present"
RemoveBom(decoded) ==
    IF decoded # <<>> /\ decoded[1] = BYTE_ORDER_MARK THEN Tail(decoded) ELSE decoded

\* convert_utf8_to_ansi, "# Normalize line endings to CRLF"
NormalizeToCrlf(decoded) ==
    Replace(Replace(decoded, <<CR, LF>>, <<LF>>), <<LF>>, <<CR, LF>>)

\* open(output_file, 'w', ...): the file is truncated when it is opened
OpenForWrite(on_disk) == <<>>

\* convert_utf8_to_ansi(input_file) with output_file = input_file: what it
\* returns and the bytes of the file afterwards
convert_utf8_to_ansi(on_disk) ==
    LET decoded == Utf8Decode(on_disk)
        normalized == NormalizeToCrlf(RemoveBom(UniversalNewlines(decoded.text)))
        encoded == Cp1252Encode(normalized, "strict")
    IN  IF ~decoded.ok
        THEN [success |-> FALSE, file |-> on_disk, error |-> "Exception"]
        ELSE IF ~encoded.ok
        THEN [success |-> FALSE, file |-> OpenForWrite(on_disk),
              error |-> "UnicodeEncodeError"]
        ELSE [success |-> TRUE, file |-> encoded.bytes, error |-> "None"]

\* ------------------------------------------------------------------------
\* V2LocKit Fixer.fix_directory: every CSV file of a directory
\* ------------------------------------------------------------------------

\* File names of a directory as character codes: a.csv, ab.csv, b.csv, a.txt
DirNames ==
    { <<97, 46, 99, 115, 118>>, <<97, 98, 46, 99, 115, 118>>,
      <<98, 46, 99, 115, 118>>, <<97, 46, 116, 120, 116>> }

\* dir_path.glob("*.csv"): the names that end in .csv, in no particular order
GlobCsv(names) == {n \in names : EndsWith(n, <<46, 99, 115, 118>>)}

\* a list that keeps the order the directory happens to be listed in
RECURSIVE Unsorted(_)
Unsorted(S) ==
    IF S = {} THEN <<>>
    ELSE LET last == CHOOSE x \in S : \A y \in S \ {x} : LexLess(y, x)
         IN  <<last>> \o Unsorted(S \ {last})

\* sorted(paths)
RECURSIVE Sorted(_)
Sorted(S) ==
    IF S = {} THEN <<>>
    ELSE LET first == CHOOSE x \in S : \A y \in S \ {x} : LexLess(x, y)
         IN  <<first>> \o Sorted(S \ {first})

\* the contents of the files of the directories tried: a file in the target
\* format, a file that needs fixing, and a file with a BOM that is not UTF-8
DirContents ==
    { FixerRow(19, <<"a">>, X) \o LINE_ENDING,
      FixerRow(2, <<"a">>, <<>>) \o <<LF>>,
      BOM \o <<"81">> }

\* the directories tried: some of the names, each with a content
Directories ==
    UNION {[present -> DirContents] : present \in SUBSET DirNames}

\* content.decode('cp1252'): strict, [ok |-> FALSE] stands for
\* UnicodeDecodeError (a byte Windows-1252 leaves undefined)
Cp1252DecodeStrict(b) ==
    IF \E i \in 1..Len(b) : b[i] \in NonAsciiBytes \ DOMAIN Cp1252Char
    THEN [ok |-> FALSE, text |-> <<>>]
    ELSE [ok |-> TRUE, text |-> Cp1252Decode(b)]

\* content.decode('utf-8', errors='replace'): every maximal ill-formed part
\* becomes one replacement character
RECURSIVE Utf8DecodeReplace(_)
Utf8DecodeReplace(b) ==
    IF b = <<>> THEN <<>>
    ELSE IF b[1] \notin NonAsciiBytes THEN <<b[1]>> \o Utf8DecodeReplace(Tail(b))
    ELSE IF b[1] \in TwoByteLeads /\ Len(b) >= 2 /\ b[2] \in ContinuationBytes
    THEN <<Utf8Two[b[2]]>> \o Utf8DecodeReplace(SubSeq(b, 3, Len(b)))
    ELSE IF b[1] \in ThreeByteLeads /\ Len(b) >= 2 /\ b[2] \in ContinuationBytes
    THEN IF Len(b) >= 3 /\ b[3] \in ContinuationBytes
         THEN <<Utf8Three[<<b[1], b[2], b[3]>>]>> \o
              Utf8DecodeReplace(SubSeq(b, 4, Len(b)))
         ELSE <<REPLACEMENT_CHARACTER>> \o Utf8DecodeReplace(SubSeq(b, 3, Len(b)))
    ELSE <<REPLACEMENT_CHARACTER>> \o Utf8DecodeReplace(Tail(b))

\* "try: text = content.decode('cp1252') except UnicodeDecodeError:
\* text = content.decode('utf-8', errors='replace')"
DecodeCp1252OrUtf8(b) ==
    IF Cp1252DecodeStrict(b).ok THEN Cp1252Decode(b) ELSE Utf8DecodeReplace(b)

\* the lines a text file opened with newline='' is iterated as: a line ends
\* after \n, \r\n or \r, and keeps its ending
RECURSIVE LinesKeepEnds(_, _)
LinesKeepEnds(decoded, current) ==
    IF decoded = <<>> THEN (IF current = <<>> THEN <<>> ELSE <<current>>)
    ELSE IF decoded[1] = CR /\ Len(decoded) >= 2 /\ decoded[2] = LF
    THEN <<current \o <<CR, LF>>>> \o
         LinesKeepEnds(SubSeq(decoded, 3, Len(decoded)), <<>>)
    ELSE IF decoded[1] \in {CR, LF}
    THEN <<Append(current, decoded[1])>> \o LinesKeepEnds(Tail(decoded), <<>>)
    ELSE LinesKeepEnds(Tail(decoded), Append(current, decoded[1]))

\* what a call of a script comes to: what it returns (success, a count, an
\* error), the bytes of the file afterwards and whether a backup was made
Outcome(success, count, error, file, backup) ==
    [success |-> success, count |-> count, error |-> error, file |-> file,
     backup |-> backup]

\* fix_text_csv_duplicates: whether the loop takes a key from the line (it is
\* not empty, not a comment and holds a semicolon)
IsKeyed(l) ==
    LET stripped == Strip(l)
    IN  stripped # <<>> /\ Head(stripped) # "#" /\ Contains(stripped, ";")

\* fix_text_csv_duplicates: key = stripped.split(';', 1)[0].strip()
KeyOf(l) == Strip(Split(Strip(l), ";")[1])

\* a loop that never looks at seen_keys
KeepAll(lines, seen_keys) == lines

\* fix_text_csv_duplicates: kept_lines, the loop over the lines of the file
RECURSIVE KeptLines(_, _)
KeptLines(lines, seen_keys) ==
    IF lines = <<>> THEN <<>>
    ELSE IF ~IsKeyed(Head(lines))
    THEN <<Head(lines)>> \o KeptLines(Tail(lines), seen_keys)
    ELSE IF KeyOf(Head(lines)) \in seen_keys THEN KeptLines(Tail(lines), seen_keys)
    ELSE <<Head(lines)>> \o
         KeptLines(Tail(lines), seen_keys \cup {KeyOf(Head(lines))})

\* fix_text_csv_duplicates(filepath, dry_run, no_backup), and the identical
\* fix_newstext_duplicates
fix_text_csv_duplicates(on_disk, dry, no_backup) ==
    LET decoded == Cp1252DecodeStrict(on_disk)
        lines == LinesKeepEnds(decoded.text, <<>>)
        kept_lines == KeptLines(lines, {})
        removed_count == Len(lines) - Len(kept_lines)
    IN  IF ~decoded.ok
        THEN Outcome(FALSE, 0, "UnicodeDecodeError", on_disk, FALSE)
        ELSE IF removed_count > 0 /\ ~dry
        THEN Outcome(TRUE, removed_count, "None",
                     Cp1252Encode(Concat(kept_lines), "strict").bytes, ~no_backup)
        ELSE Outcome(TRUE, removed_count, "None", on_disk, FALSE)

\* fix_csv_file(file_path, dry_run, no_backup)
fix_csv_file(on_disk, dry, no_backup) ==
    LET lines == Split(DecodeCp1252OrUtf8(on_disk), LF)
        fixed_lines == [i \in 1..Len(lines) |-> fix_csv_line(lines[i])]
        fixed_bytes ==
            Cp1252Encode(FixedContent(fixed_lines), "replace").bytes
    IN  IF fixed_bytes = on_disk \/ dry
        THEN Outcome(TRUE, 0, "None", on_disk, FALSE)
        ELSE Outcome(TRUE, 0, "None", fixed_bytes, ~no_backup)

\* LocalisationFixerV2.detect_encoding
V2DetectEncoding(raw) ==
    IF StartsWith(raw, BOM) THEN "utf-8-bom"
    ELSE IF /\ Utf8Decode(raw).ok
            /\ \E i \in 1..Len(Utf8Decode(raw).text) :
                  Utf8Decode(raw).text[i] \in NonAsciiChars
    THEN "utf-8"
    ELSE "cp1252"

\* LocalisationFixerV2.read_file_content: f.readlines() of the file opened in
\* text mode; [ok |-> FALSE] stands for RuntimeError
V2ReadFileContent(raw) ==
    LET encoding == V2DetectEncoding(raw)
        decoded == IF encoding = "cp1252"
                   THEN [ok |-> TRUE, text |-> Cp1252Decode(raw)]
                   ELSE Utf8Decode(raw)
        unsigned == IF encoding = "utf-8-bom" THEN RemoveBom(decoded.text)
                    ELSE decoded.text
    IN  [ok |-> decoded.ok,
         lines |-> LinesKeepEnds(UniversalNewlines(unsigned), <<>>),
         encoding |-> encoding]

\* LocalisationFixerV2.fix_file: what f.write puts in the file opened with
\* newline='\r\n', which writes every '\n' as '\r\n'
V2Written(fixed_lines) ==
    LET joined == Join(fixed_lines, <<CR, LF>>)
        ended == IF Strip(fixed_lines[Len(fixed_lines)]) = <<>> THEN joined
                 ELSE joined \o <<CR, LF>>
    IN  Cp1252Encode(Replace(ended, <<LF>>, <<CR, LF>>), "replace").bytes

\* LocalisationFixerV2.fix_file(file_path), the fixer made with dry_run; count
\* is the number of lines it reports fixed
V2_fix_file(on_disk, dry) ==
    LET read == V2ReadFileContent(on_disk)
        header == RStripNewlines(read.lines[1])
        target_columns == Len(Split(header, ";"))
        fixed_lines ==
            [i \in 1..Len(read.lines) |->
                IF i = 1 THEN header ELSE V2_fix_line(read.lines[i], target_columns)]
        lines_fixed ==
            Cardinality({i \in 2..Len(read.lines) :
                            fixed_lines[i] # RStripNewlines(read.lines[i])})
        has_changes == lines_fixed > 0 \/ read.encoding # "cp1252"
    IN  IF ~read.ok THEN Outcome(FALSE, 0, "RuntimeError", on_disk, FALSE)
        ELSE IF read.lines = <<>> THEN Outcome(TRUE, 0, "None", on_disk, FALSE)
        ELSE IF has_changes /\ ~dry
        THEN Outcome(TRUE, lines_fixed, "None", V2Written(fixed_lines), TRUE)
        ELSE Outcome(TRUE, lines_fixed, "None", on_disk, FALSE)

\* fix_file_column_count, "# Detect line ending from first line that has
\* content": the bytes that follow the first occurrence of the line in the file
RECURSIVE DetectLineEnding(_, _)
DetectLineEnding(on_disk, lines) ==
    IF lines = <<>> THEN <<CR, CR, LF>>
    ELSE LET encoded == Cp1252Encode(Head(lines), "replace").bytes
             hits == {i \in 1..Len(on_disk) :
                         StartsWith(SubSeq(on_disk, i, Len(on_disk)), encoded)}
             idx == CHOOSE i \in hits : \A j \in hits : i <= j
             remaining == SubSeq(on_disk, idx + Len(Head(lines)), Len(on_disk))
         IN  IF Strip(Head(lines)) = <<>> \/ hits = {}
             THEN DetectLineEnding(on_disk, Tail(lines))
             ELSE IF StartsWith(remaining, <<CR, CR, LF>>) THEN <<CR, CR, LF>>
             ELSE IF StartsWith(remaining, <<CR, LF>>) THEN <<CR, LF>>
             ELSE IF StartsWith(remaining, <<LF>>) THEN <<LF>>
             ELSE <<CR, CR, LF>>

\* fix_file_column_count, the loop over the lines: a line of 19 fields is
\* taken to be correct already
ColumnCountLine(l) ==
    LET parts == Split(RStripNewlines(l), ";")
        new_parts == IF Len(parts) >= 14 THEN SubSeq(parts, 1, 14)
                     ELSE PadTo(parts, 14)
    IN  IF Strip(l) = <<>> THEN l
        ELSE IF Len(parts) = 19 THEN RStripNewlines(l)
        ELSE Join(PadTo(Append(new_parts, X), 19), <<";">>)

\* fix_file_column_count(file_path); without any line that holds text the
\* message of "Already correct" reads a variable that was never assigned
fix_file_column_count(on_disk) ==
    LET lines == Split(DecodeCp1252OrUtf8(on_disk), LF)
        first_lines == SubSeq(lines, 1, IF Len(lines) < 10 THEN Len(lines) ELSE 10)
        line_ending == DetectLineEnding(on_disk, first_lines)
        changed == \E i \in 1..Len(lines) :
                      /\ Strip(lines[i]) # <<>>
                      /\ Len(Split(RStripNewlines(lines[i]), ";")) # 19
        fixed_lines == [i \in 1..Len(lines) |-> ColumnCountLine(lines[i])]
        encoded == Cp1252Encode(Join(fixed_lines, line_ending), "replace").bytes
        fixed_bytes == IF EndsWith(encoded, line_ending) THEN encoded
                       ELSE encoded \o line_ending
    IN  IF changed THEN Outcome(TRUE, 0, "None", fixed_bytes, FALSE)
        ELSE IF \A i \in 1..Len(lines) : Strip(lines[i]) = <<>>
        THEN Outcome(FALSE, 0, "UnboundLocalError", on_disk, FALSE)
        ELSE Outcome(TRUE, 0, "None", on_disk, FALSE)

\* how many lines a file tried with the duplicate removers has at most
MaxDupLines == 3

\* the lines of the files tried with the duplicate removers: keyed lines of
\* the keys a and b, a key written with blanks around it, a comment, an empty
\* line, a line without semicolon and a key that is not Windows-1252
DupLineSet ==
    { <<"a", ";", "1">>, <<"a", ";", "2">>, <<" ", "a", " ", ";">>,
      <<"b", ";", "1">>, <<"#", "a", ";", "1">>, <<>>, <<"a">>, <<"81", ";">> }

\* the files tried with the duplicate removers
DupFiles ==
    LET ended == {l \o t : l \in DupLineSet, t \in {<<LF>>, <<CR, CR, LF>>}}
    IN  {Concat(ls) : ls \in SeqsUpTo(ended, MaxDupLines)}

\* ------------------------------------------------------------------------
\* V2LocKit Validator: duplicate keys across the files of a directory
\* ------------------------------------------------------------------------

\* Validator.validate_file, "# Decode for line-by-line analysis":
\* cp1252, else utf-8, else latin1, which gives every byte the character of
\* its number (the characters of Windows-1252 from 0xA0 on, U+0081 for 0x81)
ValDecode(content) ==
    IF Cp1252DecodeStrict(content).ok THEN Cp1252DecodeStrict(content).text
    ELSE IF Utf8Decode(content).ok THEN Utf8Decode(content).text
    ELSE [i \in 1..Len(content) |->
             IF content[i] \notin NonAsciiBytes THEN content[i]
             ELSE IF content[i] \in DOMAIN Cp1252Char THEN Cp1252Char[content[i]]
             ELSE "U+0081"]

\* Validator.validate_file: the key of a line of text.split('\n'), <<>> for a
\* line that gives none (an empty line, an empty first field, a comment)
ValKey(line) ==
    LET key == Strip(Split(RStripNewlines(line), ";")[1])
    IN  IF Strip(line) = <<>> \/ key = <<>> \/ Head(key) = "#" THEN <<>> ELSE key

\* Validator.validate_file, "# Track for cross-file duplicate detection":
\* all_keys as the list of its items, in the order the keys were inserted
TrackKey(keys, key, location) ==
    IF \E e \in 1..Len(keys) : keys[e].key = key
    THEN [e \in 1..Len(keys) |->
             IF keys[e].key = key
             THEN [keys[e] EXCEPT !.locations = Append(@, location)]
             ELSE keys[e]]
    ELSE Append(keys, [key |-> key, locations |-> <<location>>])

\* Validator.validate_file(file_path): what the loop over the lines, from
\* line i on, leaves in all_keys
RECURSIVE validate_file(_, _, _, _)
validate_file(keys, file_path, lines, i) ==
    IF i > Len(lines) THEN keys
    ELSE validate_file(
             IF ValKey(lines[i]) = <<>> THEN keys
             ELSE TrackKey(keys, ValKey(lines[i]),
                           [file_path |-> file_path, line_number |-> i]),
             file_path, lines, i + 1)

\* a validator that keeps the keys of earlier calls
KeepKeys(keys) == keys

\* Validator.validate_directory: self.all_keys.clear()
ClearKeys(keys) == <<>>

\* Validator.validate_directory, "# Detect cross-file duplicates": the issues
\* of one item of all_keys
CrossFileIssuesOf(item) ==
    LET first_file == item.locations[1].file_path
        other(loc) == loc.file_path # first_file
        others == SelectSeq(Tail(item.locations), other)
    IN  IF Len(item.locations) > 1 /\ others # <<>>
        THEN [n \in 1..Len(others) |->
                 [file_path |-> others[n].file_path,
                  line_number |-> others[n].line_number,
                  context |-> item.key,
                  first_file |-> first_file]]
        ELSE <<>>

\* Validator.validate_directory, "# Detect cross-file duplicates"
CrossFileIssues(keys) ==
    Concat([e \in 1..Len(keys) |-> CrossFileIssuesOf(keys[e])])

\* the contents of the files validated: two keys, a key twice, a key under
\* CR CR LF, a comment with an empty line and a padded key, a key that is
\* neither Windows-1252 nor UTF-8, and an empty file
ValContents ==
    { <<"a", ";", "1", LF, "b", ";", "1", LF>>,
      <<"a", ";", "1", LF, "a", ";", "2", LF>>,
      <<"b", ";", "1", CR, CR, LF>>,
      <<"#", "a", ";", LF, LF, " ", "a", " ", ";", "x", LF>>,
      <<"81", ";", LF>>,
      <<>> }

\* the directories validated: some of the names, each with a content
ValDirectories ==
    UNION {[present -> ValContents] : present \in SUBSET DirNames}

\* how many times validate_directory is called on the same Validator
MaxValidateCalls == 2

\* how many times validate_file is called on it from outside
MaxDirectCalls == 1

\* ------------------------------------------------------------------------
\* V2LocKit Scanner: the keys the game files use, and those that are missing
\* ------------------------------------------------------------------------

\* str.upper, str.isupper and str.isalnum see the letters and the digits
LowerCase ==
    <<"a", "b", "c", "d", "e", "f", "g", "h", "i", "j", "k", "l", "m", "n",
      "o", "p", "q", "r", "s", "t", "u", "v", "w", "x", "y", "z">>

UpperCase ==
    <<"A", "B", "C", "D", "E", "F", "G", "H", "I", "J", "K", "L", "M", "N",
      "O", "P", "Q", "R", "S", "T", "U", "V", "W", "X", "Y", "Z">>

Digits == {"0", "1", "2", "3", "4", "5", "6", "7", "8", "9"}

\* str.upper() of a character
ToUpper(c) ==
    IF \E n \in 1..26 : LowerCase[n] = c
    THEN UpperCase[CHOOSE n \in 1..26 : LowerCase[n] = c]
    ELSE c

\* the class [A-Za-z0-9_] of the patterns
WordChars == Range(LowerCase) \cup Range(UpperCase) \cup Digits \cup {"_"}

\* where the longest run of characters of class, from position i, ends: the
\* first position after it (a greedy "*" of a pattern)
RunEnd(text, i, class) ==
    CHOOSE j \in i..(Len(text) + 1) :
        /\ \A k \in i..(j - 1) : text[k] \in class
        /\ j = Len(text) + 1 \/ text[j] \notin class

\* whether the character at position i is c
At(text, i, c) == i <= Len(text) /\ text[i] = c

\* Scanner.EVENT_TITLE_PATTERN, EVENT_DESC_PATTERN and OPTION_NAME_PATTERN,
\* matched at position i: word\s*=\s*"?([A-Za-z0-9_]+)"? with group(1) and
\* the position after the match
MatchAssignment(text, i, word) ==
    LET equals == RunEnd(text, i + Len(word), Whitespace)
        quote == RunEnd(text, equals + 1, Whitespace)
        first == IF At(text, quote, "\"") THEN quote + 1 ELSE quote
        last == RunEnd(text, first, WordChars)
    IN  IF /\ i + Len(word) - 1 <= Len(text)
           /\ SubSeq(text, i, i + Len(word) - 1) = word
           /\ At(text, equals, "=")
           /\ last > first
        THEN [ok |-> TRUE, group |-> SubSeq(text, first, last - 1),
              next |-> IF At(text, last, "\"") THEN last + 1 ELSE last]
        ELSE [ok |-> FALSE, group |-> <<>>, next |-> i + 1]

\* pattern.finditer(content) for these patterns: group(1) of the matches,
\* found from position i on
RECURSIVE FindAssignments(_, _, _)
FindAssignments(text, i, word) ==
    IF i > Len(text) THEN {}
    ELSE LET found == MatchAssignment(text, i, word)
         IN  (IF found.ok THEN {found.group} ELSE {}) \cup
             FindAssignments(text, found.next, word)

\* Scanner.MODIFIER_PATTERN.finditer(content), with re.MULTILINE:
\* ^([a-zA-Z_][a-zA-Z0-9_]*)\s*=\s*\{ matches at the start of a line
FindModifiers(text) ==
    {SubSeq(text, i, RunEnd(text, i, WordChars) - 1) :
        i \in {i \in 1..Len(text) :
                  /\ i = 1 \/ text[i - 1] = LF
                  /\ text[i] \in WordChars \ Digits
                  /\ LET equals == RunEnd(text, RunEnd(text, i, WordChars),
                                          Whitespace)
                     IN  /\ At(text, equals, "=")
                         /\ At(text, RunEnd(text, equals + 1, Whitespace),
                               "{")}}

\* Scanner._read_file_safe: utf-8, else cp1252, else latin1
ReadFileSafe(content) ==
    IF Utf8Decode(content).ok THEN Utf8Decode(content).text
    ELSE ValDecode(content)

\* Scanner._is_localisation_key: key_prefixes
KeyPrefixes ==
    {<<"E", "V", "T">>, <<"M", "O", "D", "I", "F", "I", "E", "R">>,
     <<"D", "E", "C", "I", "S", "I", "O", "N">>, <<"d", "e", "s", "c", "_">>,
     <<"t", "i", "t", "l", "e", "_">>, <<"o", "p", "t", "i", "o", "n", "_">>}

\* Scanner._is_localisation_key(text)
IsLocalisationKey(text) ==
    LET upper(s) == [n \in 1..Len(s) |-> ToUpper(s[n])]
        isupper == /\ \E n \in 1..Len(text) : text[n] \in Range(UpperCase)
                   /\ \A n \in 1..Len(text) : text[n] \notin Range(LowerCase)
        plain == SelectSeq(text, LAMBDA c : c # "_")
        isalnum == /\ plain # <<>>
                   /\ \A n \in 1..Len(plain) :
                         plain[n] \in WordChars \ {"_"}
    IN  /\ text # <<>>
        /\ ~InSeq(" ", text)
        /\ \/ \E p \in KeyPrefixes : StartsWith(upper(text), upper(p))
           \/ isupper /\ Len(text) > 3
           \/ InSeq("_", text) /\ isalnum

\* Scanner.scan_events and scan_decisions: the keys the patterns of words find
\* in the files of a directory; a directory that does not exist gives none
ScanFiles(dir, words) ==
    IF ~dir.exists THEN {}
    ELSE {key \in UNION {FindAssignments(ReadFileSafe(dir.files[n]), 1, word) :
                            n \in 1..Len(dir.files), word \in words} :
              IsLocalisationKey(key)}

\* Scanner.scan_events()
scan_events(game_files) ==
    ScanFiles(game_files.events,
              {<<"t", "i", "t", "l", "e">>, <<"d", "e", "s", "c">>,
               <<"n", "a", "m", "e">>})

\* Scanner.scan_decisions()
scan_decisions(game_files) ==
    ScanFiles(game_files.decisions,
              {<<"t", "i", "t", "l", "e">>, <<"d", "e", "s", "c">>})

\* Scanner.scan_modifiers(): event_modifiers.txt, triggered_modifiers.txt
\* and static_modifiers.txt, those that exist
scan_modifiers(game_files) ==
    UNION {FindModifiers(ReadFileSafe(game_files.common[n].content)) :
              n \in {n \in 1..3 : game_files.common[n].exists}} \
    {<<"i", "c", "o", "n">>, <<"d", "u", "r", "a", "t", "i", "o", "n">>,
     <<"t", "r", "i", "g", "g", "e", "r">>,
     <<"e", "f", "f", "e", "c", "t">>}

\* Scanner._find_key_source(key, search_path): the first file that holds the
\* key, as its place in the directory, and 0 for None
FindKeySource(key, dir) ==
    LET holding == {n \in 1..Len(dir.files) :
                       ContainsSub(ReadFileSafe(dir.files[n]), key)}
    IN  IF ~dir.exists \/ holding = {} THEN 0
        ELSE CHOOSE n \in holding : \A k \in holding : n <= k

\* Scanner.find_missing, one of its three loops: the MissingKey records it
\* appends for the keys scanned
MissingOf(scanned, existing, category, dir) ==
    {[key |-> key, source_file |-> FindKeySource(key, dir),
      category |-> category] : key \in scanned \ existing}

\* the lines of the event files tried
EventLines ==
    { <<"t", "i", "t", "l", "e", " ", "=", " ", "E", "V", "T", "_", "A", LF>>,
      <<"d", "e", "s", "c", " ", "=", " ", "\"", "E", "V", "T", "_", "B", "\"", LF>>,
      <<"n", "a", "m", "e", " ", "=", " ", "h", "e", "l", "l", "o", LF>>,
      <<"t", "i", "t", "l", "e", " ", "=", LF, "K", "_", "1", LF>> }

\* the lines of the decision files tried
DecisionLines ==
    { <<"t", "i", "t", "l", "e", " ", "=", " ", "E", "V", "T", "_", "A", LF>>,
      <<"d", "e", "s", "c", " ", "=", " ", "D", "_", "1", LF>>,
      <<"n", "a", "m", "e", " ", "=", " ", "E", "V", "T", "_", "B", LF>> }

\* the lines of the modifier files tried
ModifierLines ==
    { <<"E", "V", "T", "_", "A", " ", "=", " ", "{", LF>>,
      <<"i", "c", "o", "n", " ", "=", " ", "{", LF>>,
      <<"m", "_", "1", "=", "{", LF>>,
      <<" ", "x", "_", "1", " ", "=", " ", "{", LF>> }

\* how many lines an event file tried has at most
MaxScanLines == 2

\* a directory that does not exist, and a file that does not exist
NoDirectory == [exists |-> FALSE, files |-> <<>>]

NoFile == [exists |-> FALSE, content |-> <<>>]

\* the mods tried: the events directory absent, with one file or with two
\* files of one line; the decisions directory absent or with one file of at
\* most a line; of the modifier files, event_modifiers.txt and
\* triggered_modifiers.txt absent or not
GameFiles ==
    [events :
         {NoDirectory} \cup
         {[exists |-> TRUE, files |-> <<Concat(ls)>>] :
             ls \in SeqsUpTo(EventLines, MaxScanLines)} \cup
         {[exists |-> TRUE,
           files |-> <<<<"n", "a", "m", "e", " ", "=", " ", "h", "e", "l", "l", "o", LF>>,
                       <<"t", "i", "t", "l", "e", " ", "=", " ", "E", "V", "T", "_", "A", LF>>>>]},
     decisions :
         {NoDirectory} \cup
         {[exists |-> TRUE, files |-> <<Concat(ls)>>] :
             ls \in SeqsUpTo(DecisionLines, 1)},
     common :
         {<<first, second, NoFile>> :
             first \in {NoFile} \cup
                       {[exists |-> TRUE, content |-> Concat(ls)] :
                           ls \in SeqsUpTo(ModifierLines, 1)},
             second \in {NoFile,
                         [exists |-> TRUE,
                          content |-> <<"E", "V", "T", "_", "A", " ", "=", " ", "{", LF>>]}}]

\* the sets of keys the localisation files may define
ExistingKeySets ==
    SUBSET {<<"E", "V", "T", "_", "A">>, <<"D", "_", "1">>,
            <<"m", "_", "1">>}

\* ------------------------------------------------------------------------
\* V2LocKit Validator.validate_file: the issues of one file
\* ------------------------------------------------------------------------

\* Validator.detect_encoding: f.read(1024)
ReadSize == 1024

\* Validator.VALID_ENCODINGS
VALID_ENCODINGS == {"cp1252", "windows-1252", "latin1"}

\* Validator.detect_encoding(file_path) on a file of bytes content;
\* "unknown" when the file cannot be read
detect_encoding(content, readable) ==
    LET raw == SubSeq(content, 1,
                      IF Len(content) < ReadSize THEN Len(content) ELSE ReadSize)
    IN  IF ~readable THEN "unknown"
        ELSE IF StartsWith(raw, BOM) THEN "utf-8-bom"
        ELSE IF StartsWith(raw, <<"FF", "FE">>) THEN "utf-16-le"
        ELSE IF StartsWith(raw, <<"FE", "FF">>) THEN "utf-16-be"
        ELSE IF Utf8Decode(raw).ok
        THEN (IF \E n \in 1..Len(raw) : raw[n] \in NonAsciiBytes
              THEN "cp1252" ELSE "utf-8")
        ELSE "cp1252"

\* ValidationIssue(issue_type=..., severity=..., line_number=...), line 0
\* for None
ValidationIssue(issue_type, severity, line_number) ==
    [issue_type |-> issue_type, severity |-> severity, line_number |-> line_number]

\* Validator.validate_file, the body of "for i, line in enumerate(lines, 1)":
\* the issues of line i, and the key it adds to seen_keys_in_file
LineIssuesOf(lines, i, seen_keys_in_file) ==
    LET line == RStripNewlines(lines[i])
        parts == Split(line, ";")
        key == Strip(parts[1])
        keyed == key # <<>> /\ Head(key) # "#"
    IN  IF Strip(line) = <<>>
        THEN [issues |->
                  IF i > 1 /\ i < Len(lines)
                  THEN <<ValidationIssue("EMPTY_LINE", "WARNING", i)>>
                  ELSE <<>>,
              seen |-> seen_keys_in_file]
        ELSE [issues |->
                  (IF Len(parts) # TARGET_COLUMNS
                   THEN <<ValidationIssue("COLUMN_COUNT", "ERROR", i)>>
                   ELSE <<>>) \o
                  (IF Len(parts) >= 15 /\ Strip(parts[15]) # X
                   THEN <<ValidationIssue("MISSING_TERMINATOR", "WARNING", i)>>
                   ELSE <<>>) \o
                  (IF keyed /\ key \in seen_keys_in_file
                   THEN <<ValidationIssue("DUPLICATE_KEY_SAME_FILE", "WARNING", i)>>
                   ELSE <<>>),
              seen |->
                  IF keyed THEN seen_keys_in_file \cup {key}
                  ELSE seen_keys_in_file]

\* Validator.validate_file, "for i, line in enumerate(lines, 1)", from line
\* i on
RECURSIVE LineIssues(_, _, _)
LineIssues(lines, i, seen_keys_in_file) ==
    IF i > Len(lines) THEN <<>>
    ELSE LET this == LineIssuesOf(lines, i, seen_keys_in_file)
         IN  this.issues \o LineIssues(lines, i + 1, this.seen)

\* Validator.validate_file(file_path) on a file of bytes content:
\* result.encoding_detected and result.issues
FileValidationResult(content, readable) ==
    LET encoding_detected == detect_encoding(content, readable)
    IN  [encoding_detected |-> encoding_detected,
         issues |->
             (IF encoding_detected \notin VALID_ENCODINGS
              THEN <<ValidationIssue("ENCODING", "WARNING", 0)>> ELSE <<>>) \o
             (IF ~readable THEN <<ValidationIssue("ENCODING", "ERROR", 0)>>
              ELSE (IF ~ContainsSub(content, <<CR, CR, LF>>) /\
                       ContainsSub(content, <<LF>>)
                    THEN <<ValidationIssue("LINE_ENDING", "ERROR", 0)>>
                    ELSE <<>>) \o
                   LineIssues(Split(ValDecode(content), LF), 1, {}))]

VARIABLES
    files,          \* the directory: file name -> lines
    files0,         \* the directory as it was before main() ran
    pc,             \* main(): "load", "find", "remove", "verify" or "done"
    iteration,      \* main(): iteration
    total_removed,  \* main(): total_removed
    file_keys,      \* the file_keys of the latest load_all_keys
    dead_keys,      \* the dead_keys of the latest find_all_dead_keys
    report_keys,    \* analyze_duplicates: the file_keys it loaded
    duplicates      \* analyze_duplicates: the duplicates lists

cleanupVars ==
    <<files, files0, pc, iteration, total_removed, file_keys, dead_keys,
      report_keys, duplicates>>

VARIABLES
    normalizer,     \* the column normalizer under test ("none" outside LineSpec)
    target_count,   \* fix_line: target_columns (0 for the other normalizers)
    current_line,   \* the line: the input, then the output of each application
    line_before,    \* the line the latest application was given
    applications    \* how often the normalizer has been applied

lineVars == <<normalizer, target_count, current_line, line_before, applications>>

VARIABLES
    eol_fixer,      \* the line-ending fixer that is run on the file
    eol_content,    \* the bytes of the file on disk
    content0,       \* the bytes of the file before the first run
    content_before, \* the bytes of the file before the last run
    wrote,          \* whether the last run wrote the file
    runs            \* how many times the fixer has run

eolVars == <<eol_fixer, eol_content, content0, content_before, wrote, runs>>

VARIABLES
    create_backup,  \* Fixer.create_backup
    dry_run,        \* Fixer.dry_run
    disk,           \* the bytes of the file at file_path
    disk0,          \* the bytes of the file before the first call
    disk_before,    \* the bytes of the file before the last call
    backups,        \* the backup files: [stamp, bytes]
    clock,          \* datetime.now(), in seconds
    result,         \* the FixResult the last call returned
    decoded_text,   \* the decoded text of the last call
    fault,          \* what went wrong with the file system in the last call
    written,        \* whether the last call wrote the file
    fix_calls       \* how many times fix_file has been called

fixerVars ==
    <<create_backup, dry_run, disk, disk0, disk_before, backups, clock, result,
      decoded_text, fault, written, fix_calls>>

VARIABLES
    script,           \* the script run on the file ("none" outside ScriptSpec)
    script_dry_run,   \* its dry_run argument
    script_no_backup, \* its no_backup argument
    script_disk,      \* the bytes of the file on disk
    script_before,    \* the bytes of the file before the last call
    script_backups,   \* the bytes of the backup files created
    script_return,    \* what the last call returned
    script_calls      \* how many times the script has been called

scriptVars ==
    <<script, script_dry_run, script_no_backup, script_disk, script_before,
      script_backups, script_return, script_calls>>

VARIABLES
    directory,      \* the directory: file name -> bytes
    directory0,     \* the directory before fix_directory was called
    dir_pc,         \* fix_directory: "glob", "loop" or "return"
    csv_files,      \* fix_directory: csv_files
    file_index,     \* fix_directory: how many of csv_files the loop has taken
    report,         \* fix_directory: report.results
    fix_file_calls  \* the calls of fix_file so far: the file and the fault

dirVars ==
    <<directory, directory0, dir_pc, csv_files, file_index, report,
      fix_file_calls>>

VARIABLES
    current_path,     \* MainWindow.current_path: whether a folder is open
    validate_action,  \* whether validate_action is enabled
    fix_action,       \* whether fix_action is enabled
    preview_action,   \* whether preview_action is enabled
    scan_action,      \* whether scan_action is enabled
    running,          \* the worker threads that are running: [id, kind]
    signals,          \* the finished signals queued for the GUI thread
    started           \* how many workers have been started

guiVars ==
    <<current_path, validate_action, fix_action, preview_action, scan_action,
      running, signals, started>>

VARIABLES
    val_directory,     \* the directory validated: content of each file
    all_keys,          \* Validator.all_keys, as the list of its items
    val_pc,            \* where validate_directory is
    val_csv_files,     \* validate_directory: csv_files
    val_index,         \* how many of csv_files the loop has validated
    cross_file_issues, \* report.cross_file_issues
    validate_calls,    \* how many calls of validate_directory were started
    direct_calls       \* how many calls of validate_file came from outside

valVars ==
    <<val_directory, all_keys, val_pc, val_csv_files, val_index,
      cross_file_issues, validate_calls, direct_calls>>

VARIABLES
    mod_files,      \* the game files under Scanner.mod_path
    existing_keys,  \* find_missing: existing_keys
    scan_pc,        \* where find_missing is
    missing_keys    \* report.missing_keys, as the bag of its records

scanVars == <<mod_files, existing_keys, scan_pc, missing_keys>>

VARIABLES
    fv_file,        \* the bytes of the file on disk
    fv_file0,       \* the bytes the file had at first
    fv_pc,          \* what ran last: "start", "fixed", "validated"
    fv_fixes,       \* how many times fix_file was called on the file
    fv_result,      \* the FixResult of the last fix_file
    fv_readable,    \* whether validate_file could open the file
    fv_validation   \* what validate_file returned

fvVars ==
    <<fv_file, fv_file0, fv_pc, fv_fixes, fv_result, fv_readable,
      fv_validation>>

vars ==
    <<cleanupVars, lineVars, eolVars, fixerVars,
      scriptVars, dirVars, guiVars, valVars,
      scanVars, fvVars>>

\* the column normalizers are not running
LineIdle ==
    /\ normalizer = "none"
    /\ target_count = 0
    /\ current_line = <<>>
    /\ line_before = <<>>
    /\ applications = 0

\* complete_cleanup is not running
EolIdle ==
    /\ eol_fixer = "none"
    /\ eol_content = <<>>
    /\ content0 = <<>>
    /\ content_before = <<>>
    /\ wrote = FALSE
    /\ runs = 0

FixerIdle ==
    /\ create_backup = FALSE
    /\ dry_run = FALSE
    /\ disk = <<>>
    /\ disk0 = <<>>
    /\ disk_before = <<>>
    /\ backups = {}
    /\ clock = 0
    /\ result = NewResult
    /\ decoded_text = <<>>
    /\ fault = "none"
    /\ written = FALSE
    /\ fix_calls = 0

CleanupIdle ==
    /\ files = [f \in FileNames |-> <<>>]
    /\ files0 = files
    /\ pc = "idle"
    /\ iteration = 0
    /\ total_removed = 0
    /\ file_keys = [f \in FileNames |-> <<>>]
    /\ dead_keys = [f \in FileNames |-> {}]
    /\ report_keys = [f \in FileNames |-> <<>>]
    /\ duplicates = [f \in FileNames |-> <<>>]

\* what a script returns: success, the count it reports, and the error
NoReturn == [success |-> TRUE, count |-> 0, error |-> "None"]

\* no single-file script is running
ScriptIdle ==
    /\ script = "none"
    /\ script_dry_run = FALSE
    /\ script_no_backup = FALSE
    /\ script_disk = <<>>
    /\ script_before = <<>>
    /\ script_backups = {}
    /\ script_return = NoReturn
    /\ script_calls = 0

\* fix_directory is not running
DirIdle ==
    /\ directory = <<>>
    /\ directory0 = <<>>
    /\ dir_pc = "idle"
    /\ csv_files = <<>>
    /\ file_index = 0
    /\ report = <<>>
    /\ fix_file_calls = <<>>

\* the GUI is not running
GuiIdle ==
    /\ current_path = FALSE
    /\ validate_action = FALSE
    /\ fix_action = FALSE
    /\ preview_action = FALSE
    /\ scan_action = FALSE
    /\ running = {}
    /\ signals = <<>>
    /\ started = 0

\* no Validator exists
ValIdle ==
    /\ val_directory = <<>>
    /\ all_keys = <<>>
    /\ val_pc = "none"
    /\ val_csv_files = <<>>
    /\ val_index = 0
    /\ cross_file_issues = <<>>
    /\ validate_calls = 0
    /\ direct_calls = 0

\* no Scanner exists
ScanIdle ==
    /\ mod_files = <<>>
    /\ existing_keys = {}
    /\ scan_pc = "none"
    /\ missing_keys = EmptyBag

\* validate_file has not been called
NoValidation == [encoding_detected |-> "none", issues |-> <<>>]

\* no file is being fixed and validated
FvIdle ==
    /\ fv_file = <<>>
    /\ fv_file0 = <<>>
    /\ fv_pc = "none"
    /\ fv_fixes = 0
    /\ fv_result = NewResult
    /\ fv_readable = TRUE
    /\ fv_validation = NoValidation

NoReport == [f \in FileNames |-> <<>>]

NoKeys == [f \in FileNames |-> <<>>]

\* the directories of at most MaxTotalLines lines: a list of lines cut in three
InitialDirectories ==
    LET fwp == FilesWithPriority
        Cut(all, c1, c2) ==
            [f \in FileNames |->
                IF f = fwp[1] THEN SubSeq(all, 1, c1)
                ELSE IF f = fwp[2] THEN SubSeq(all, c1 + 1, c2)
                ELSE SubSeq(all, c2 + 1, Len(all))]
    IN  UNION { UNION { { Cut(all, c1, c2) : c1 \in 0..c2 } : c2 \in 0..Len(all) } :
                all \in SeqsUpTo(LineSet, MaxTotalLines) }

Init ==
    /\ files \in InitialDirectories
    /\ files0 = files
    /\ pc = "load"
    /\ iteration = 0
    /\ total_removed = 0
    /\ file_keys = NoKeys
    /\ dead_keys = [f \in FileNames |-> {}]
    /\ report_keys = NoKeys
    /\ duplicates = NoReport
    /\ LineIdle
    /\ EolIdle
    /\ FixerIdle
    /\ ScriptIdle
    /\ DirIdle
    /\ GuiIdle
    /\ ValIdle
    /\ ScanIdle
    /\ FvIdle

\* main(), top of the loop: iteration += 1 and load_all_keys
Load ==
    /\ pc = "load"
    /\ iteration < MaxIterations
    /\ iteration' = iteration + 1
    /\ file_keys' = LoadAllKeys(files)
    /\ pc' = "find"
    /\ UNCHANGED <<files, files0, total_removed, dead_keys, report_keys, duplicates>>
    /\ UNCHANGED <<lineVars, eolVars, fixerVars, scriptVars, dirVars, guiVars,
                   valVars, scanVars, fvVars>>

\* main(): find_all_dead_keys and the "if not dead_keys: break"
Find ==
    /\ pc = "find"
    /\ dead_keys' = FindAllDeadKeys(FilesWithPriority, file_keys)
    /\ pc' = IF NoDeadKeys(dead_keys') THEN "verify" ELSE "remove"
    /\ UNCHANGED <<files, files0, iteration, total_removed, file_keys,
                   report_keys, duplicates>>
    /\ UNCHANGED <<lineVars, eolVars, fixerVars, scriptVars, dirVars, guiVars,
                   valVars, scanVars, fvVars>>

\* main(): remove all dead keys, add up, "if iter_removed == 0: break"
Remove ==
    /\ pc = "remove"
    /\ LET res == RemoveAllDead(files, dead_keys)
           iter_removed == SumOver(FileNames, [f \in FileNames |-> res[f].removed])
       IN  /\ files' = [f \in FileNames |-> res[f].lines]
           /\ total_removed' = total_removed + iter_removed
           /\ pc' = IF LoopStops(iter_removed) THEN "verify" ELSE "load"
    /\ UNCHANGED <<files0, iteration, file_keys, dead_keys, report_keys, duplicates>>
    /\ UNCHANGED <<lineVars, eolVars, fixerVars, scriptVars, dirVars, guiVars,
                   valVars, scanVars, fvVars>>

\* the final verification of main()
Verify ==
    /\ pc = "verify"
    /\ file_keys' = LoadAllKeys(files)
    /\ dead_keys' = FindAllDeadKeys(FilesWithPriority, LoadAllKeys(files))
    /\ pc' = "done"
    /\ UNCHANGED <<files, files0, iteration, total_removed, report_keys, duplicates>>
    /\ UNCHANGED <<lineVars, eolVars, fixerVars, scriptVars, dirVars, guiVars,
                   valVars, scanVars, fvVars>>

\* report_remaining_duplicates.py, run on the directory before or after the
\* cleanup
Report ==
    /\ pc = "done" \/ (pc = "load" /\ iteration = 0)
    /\ report_keys' = LoadAllKeys(files)
    /\ duplicates' = AnalyzeDuplicates(FilesWithPriority, report_keys')
    /\ duplicates' # duplicates \/ report_keys' # report_keys
    /\ UNCHANGED <<files, files0, pc, iteration, total_removed, file_keys, dead_keys>>
    /\ UNCHANGED <<lineVars, eolVars, fixerVars, scriptVars, dirVars, guiVars,
                   valVars, scanVars, fvVars>>

\* complete_cleanup.py alone
MainNext == Load \/ Find \/ Remove \/ Verify

Next == MainNext \/ Report

Spec == Init /\ [][Next]_vars

\* main() is a sequential program: it keeps running until it returns
FairSpec == Init /\ [][MainNext]_vars /\ WF_vars(MainNext)

\* ------------------------------------------------------------------------
\* The column normalizers applied to a line, and again to their own output
\* ------------------------------------------------------------------------

LineInit ==
    /\ normalizer \in Normalizers
    /\ target_count \in (IF normalizer = "fix_line" THEN V2Targets ELSE {0})
    /\ current_line \in InputLines
    /\ line_before = current_line
    /\ applications = 0
    /\ CleanupIdle
    /\ EolIdle
    /\ FixerIdle
    /\ ScriptIdle
    /\ DirIdle
    /\ GuiIdle
    /\ ValIdle
    /\ ScanIdle
    /\ FvIdle

\* Fixer._fix_line(line)
ApplyFixerFixLine ==
    /\ normalizer = "Fixer._fix_line"
    /\ applications < MaxApplications
    /\ current_line' = Fixer_fix_line(current_line)
    /\ line_before' = current_line
    /\ applications' = applications + 1
    /\ UNCHANGED <<normalizer, target_count, cleanupVars, eolVars, fixerVars,
                   scriptVars, dirVars, guiVars, valVars, scanVars, fvVars>>

\* fix_csv_file, the body of "for line in lines"
ApplyFixCsvLine ==
    /\ normalizer = "fix_csv_file"
    /\ applications < MaxApplications
    /\ current_line' = fix_csv_line(current_line)
    /\ line_before' = current_line
    /\ applications' = applications + 1
    /\ UNCHANGED <<normalizer, target_count, cleanupVars, eolVars, fixerVars,
                   scriptVars, dirVars, guiVars, valVars, scanVars, fvVars>>

\* LocalisationFixerV2.fix_line(line, target_columns)
ApplyV2FixLine ==
    /\ normalizer = "fix_line"
    /\ applications < MaxApplications
    /\ current_line' = V2_fix_line(current_line, target_count)
    /\ line_before' = current_line
    /\ applications' = applications + 1
    /\ UNCHANGED <<normalizer, target_count, cleanupVars, eolVars, fixerVars,
                   scriptVars, dirVars, guiVars, valVars, scanVars, fvVars>>

LineNext == ApplyFixerFixLine \/ ApplyFixCsvLine \/ ApplyV2FixLine

LineSpec == LineInit /\ [][LineNext]_vars

\* ------------------------------------------------------------------------
\* A line-ending fixer run on a file, and again on the file it left
\* ------------------------------------------------------------------------

EolInit ==
    /\ eol_fixer \in EolFixers
    /\ eol_content \in SeqsUpTo(EolBytes, MaxBytes)
    /\ content0 = eol_content
    /\ content_before = eol_content
    /\ wrote = FALSE
    /\ runs = 0
    /\ CleanupIdle
    /\ LineIdle
    /\ FixerIdle
    /\ ScriptIdle
    /\ DirIdle
    /\ GuiIdle
    /\ ValIdle
    /\ ScanIdle
    /\ FvIdle

\* fix_file_line_endings(file_path): writes only "if fixed != content"
RunFixFileLineEndings ==
    /\ eol_fixer = "fix_file_line_endings"
    /\ runs < MaxRuns
    /\ LET fixed == fix_file_line_endings(eol_content)
       IN  /\ wrote' = (fixed # eol_content)
           /\ eol_content' = IF fixed = eol_content THEN eol_content ELSE fixed
    /\ content_before' = eol_content
    /\ runs' = runs + 1
    /\ UNCHANGED <<eol_fixer, content0, cleanupVars, lineVars, fixerVars,
                   scriptVars, dirVars, guiVars, valVars, scanVars, fvVars>>

\* fix_line_endings(filepath) of fix_line_endings.py: writes only
\* "if content != original"
RunFixLineEndingsLf ==
    /\ eol_fixer = "fix_line_endings"
    /\ runs < MaxRuns
    /\ LET fixed == fix_line_endings_lf(eol_content)
       IN  /\ wrote' = (fixed # eol_content)
           /\ eol_content' = IF fixed # eol_content THEN fixed ELSE eol_content
    /\ content_before' = eol_content
    /\ runs' = runs + 1
    /\ UNCHANGED <<eol_fixer, content0, cleanupVars, lineVars, fixerVars,
                   scriptVars, dirVars, guiVars, valVars, scanVars, fvVars>>

\* fix_line_endings(input_file) of fix_localisation_encoding.py: always
\* writes the file back
RunFixLineEndingsCrlf ==
    /\ eol_fixer = "fix_line_endings.crlf"
    /\ runs < MaxRuns
    /\ eol_content' = fix_line_endings_crlf(eol_content)
    /\ wrote' = TRUE
    /\ content_before' = eol_content
    /\ runs' = runs + 1
    /\ UNCHANGED <<eol_fixer, content0, cleanupVars, lineVars, fixerVars,
                   scriptVars, dirVars, guiVars, valVars, scanVars, fvVars>>

EolNext == RunFixFileLineEndings \/ RunFixLineEndingsLf \/ RunFixLineEndingsCrlf

EolSpec == EolInit /\ [][EolNext]_vars

\* ------------------------------------------------------------------------
\* Fixer.fix_file called on a file, and again on the file it left
\* ------------------------------------------------------------------------

FixerInit ==
    /\ create_backup \in BOOLEAN
    /\ dry_run \in BOOLEAN
    /\ disk \in InitialFiles
    /\ disk0 = disk
    /\ disk_before = disk
    /\ backups = {}
    /\ clock = 1
    /\ result = NewResult
    /\ decoded_text = <<>>
    /\ fault = "none"
    /\ written = FALSE
    /\ fix_calls = 0
    /\ CleanupIdle
    /\ LineIdle
    /\ EolIdle
    /\ ScriptIdle
    /\ DirIdle
    /\ GuiIdle
    /\ ValIdle
    /\ ScanIdle
    /\ FvIdle

\* Fixer.fix_file(file_path), with a fault f of the file system (an
\* exception of open or of shutil.copy2) and the seconds that passed since
\* the last backup
fix_file ==
    /\ fix_calls < MaxFixCalls
    /\ \E run \in {FixRun(disk)}, f \in Faults, tick \in {0, 1} :
         \E out \in {FixFileOutcome(run, disk, create_backup, dry_run, f,
                                    clock + tick)} :
             /\ FaultCanHappen(run, create_backup, dry_run, f)
             /\ tick = 1 => out.result.backup_path # 0
             /\ decoded_text' = IF f = "read" THEN <<>> ELSE run.text
             /\ clock' = clock + tick
             /\ backups' =
                   IF out.result.backup_path # 0
                   THEN {b \in backups : b.stamp # out.result.backup_path} \cup
                        {BackupFile(disk, out.result.backup_path)}
                   ELSE backups
             /\ result' = out.result
             /\ written' = out.written
             /\ disk' = out.file
             /\ fault' = f
    /\ disk_before' = disk
    /\ fix_calls' = fix_calls + 1
    /\ UNCHANGED <<create_backup, dry_run, disk0, cleanupVars, lineVars,
                   eolVars, scriptVars, dirVars, guiVars, valVars, scanVars,
                   fvVars>>

FixerNext == fix_file

FixerSpec == FixerInit /\ [][FixerNext]_vars

\* ------------------------------------------------------------------------
\* A single-file script called on a file
\* ------------------------------------------------------------------------

\* how many times a script is called on the file
MaxScriptCalls == 1

\* the scripts, and Fixer.fix_file of the GUI beside them
Scripts ==
    {"convert_utf8_to_ansi", "fix_text_csv_duplicates", "fix_csv_file",
     "LocalisationFixerV2.fix_file", "fix_file_column_count", "Fixer.fix_file"}

\* the files each script is tried on
ScriptFiles(s) == IF s = "fix_text_csv_duplicates" THEN DupFiles ELSE InitialFiles

\* the scripts that take dry_run
HasDryRun(s) ==
    s \in {"fix_text_csv_duplicates", "fix_csv_file",
           "LocalisationFixerV2.fix_file", "Fixer.fix_file"}

\* the scripts that can be told to make no backup
HasNoBackup(s) ==
    s \in {"fix_text_csv_duplicates", "fix_csv_file", "Fixer.fix_file"}

ScriptInit ==
    /\ script \in Scripts
    /\ script_dry_run \in (IF HasDryRun(script) THEN BOOLEAN ELSE {FALSE})
    /\ script_no_backup \in (IF HasNoBackup(script) THEN BOOLEAN ELSE {FALSE})
    /\ script_disk \in ScriptFiles(script)
    /\ script_before = script_disk
    /\ script_backups = {}
    /\ script_return = NoReturn
    /\ script_calls = 0
    /\ CleanupIdle
    /\ LineIdle
    /\ EolIdle
    /\ FixerIdle
    /\ DirIdle
    /\ GuiIdle
    /\ ValIdle
    /\ ScanIdle
    /\ FvIdle

\* convert_utf8_to_ansi(input_file)
RunConvertUtf8ToAnsi ==
    /\ script = "convert_utf8_to_ansi"
    /\ script_calls < MaxScriptCalls
    /\ \E run \in {convert_utf8_to_ansi(script_disk)} :
         /\ script_disk' = run.file
         /\ script_return' =
               [success |-> run.success, count |-> 0, error |-> run.error]
    /\ script_before' = script_disk
    /\ script_calls' = script_calls + 1
    /\ UNCHANGED <<script, script_dry_run, script_no_backup, script_backups>>
    /\ UNCHANGED <<cleanupVars, lineVars, eolVars, fixerVars, dirVars, guiVars,
                   valVars, scanVars, fvVars>>

\* a call of the script comes to outcome: the file, the backups (each the
\* bytes copied) and the value returned afterwards
ScriptCall(outcome) ==
    /\ script_disk' = outcome.file
    /\ script_backups' = IF outcome.backup THEN script_backups \cup {script_disk}
                         ELSE script_backups
    /\ script_return' = [success |-> outcome.success, count |-> outcome.count,
                         error |-> outcome.error]
    /\ script_before' = script_disk
    /\ script_calls' = script_calls + 1
    /\ UNCHANGED <<script, script_dry_run, script_no_backup>>
    /\ UNCHANGED <<cleanupVars, lineVars, eolVars, fixerVars, dirVars, guiVars,
                   valVars, scanVars, fvVars>>

\* fix_text_csv_duplicates(filepath, dry_run, no_backup); where it writes the
\* file, open(filepath, 'w') can fail, and the function then reports the
\* error and returns 0
RunFixTextCsvDuplicates ==
    /\ script = "fix_text_csv_duplicates"
    /\ script_calls < MaxScriptCalls
    /\ \E outcome \in {fix_text_csv_duplicates(script_disk, script_dry_run,
                                               script_no_backup)},
          f \in {"none", "write"} :
           /\ f = "write" => (outcome.count > 0 /\ ~script_dry_run)
           /\ ScriptCall(IF f = "write"
                         THEN Outcome(FALSE, 0, "write error", script_disk,
                                      outcome.backup)
                         ELSE outcome)

\* fix_csv_file(file_path, dry_run, no_backup)
RunFixCsvFile ==
    /\ script = "fix_csv_file"
    /\ script_calls < MaxScriptCalls
    /\ \E outcome \in {fix_csv_file(script_disk, script_dry_run, script_no_backup)} :
           ScriptCall(outcome)

\* LocalisationFixerV2(dry_run=...).fix_file(file_path)
RunV2FixFile ==
    /\ script = "LocalisationFixerV2.fix_file"
    /\ script_calls < MaxScriptCalls
    /\ \E outcome \in {V2_fix_file(script_disk, script_dry_run)} :
           ScriptCall(outcome)

\* fix_file_column_count(file_path)
RunFixFileColumnCount ==
    /\ script = "fix_file_column_count"
    /\ script_calls < MaxScriptCalls
    /\ \E outcome \in {fix_file_column_count(script_disk)} :
           ScriptCall(outcome)

\* Fixer(create_backup=not no_backup, dry_run=...).fix_file(file_path), with
\* a fault f of the file system
RunFixerFixFile ==
    /\ script = "Fixer.fix_file"
    /\ script_calls < MaxScriptCalls
    /\ \E run \in {FixRun(script_disk)}, f \in Faults :
           \E fixed \in {FixFileOutcome(run, script_disk, ~script_no_backup,
                                         script_dry_run, f, 1)} :
               /\ FaultCanHappen(run, ~script_no_backup, script_dry_run, f)
               /\ ScriptCall(Outcome(fixed.result.success,
                                      Len(fixed.result.changes_made),
                                      fixed.result.error, fixed.file,
                                      fixed.result.backup_path # 0))

ScriptNext ==
    \/ RunConvertUtf8ToAnsi
    \/ RunFixTextCsvDuplicates
    \/ RunFixCsvFile
    \/ RunV2FixFile
    \/ RunFixFileColumnCount
    \/ RunFixerFixFile

ScriptSpec == ScriptInit /\ [][ScriptNext]_vars

\* ------------------------------------------------------------------------
\* Fixer.fix_directory called on a directory
\* ------------------------------------------------------------------------

\* Fixer(create_backup, dry_run) and a directory
DirInit ==
    /\ directory \in Directories
    /\ directory0 = directory
    /\ dir_pc = "glob"
    /\ csv_files = <<>>
    /\ file_index = 0
    /\ report = <<>>
    /\ fix_file_calls = <<>>
    /\ create_backup \in BOOLEAN
    /\ dry_run \in BOOLEAN
    /\ disk = <<>>
    /\ disk0 = <<>>
    /\ disk_before = <<>>
    /\ backups = {}
    /\ clock = 1
    /\ result = NewResult
    /\ decoded_text = <<>>
    /\ fault = "none"
    /\ written = FALSE
    /\ fix_calls = 0
    /\ CleanupIdle
    /\ LineIdle
    /\ EolIdle
    /\ ScriptIdle
    /\ GuiIdle
    /\ ValIdle
    /\ ScanIdle
    /\ FvIdle

\* fix_directory: report = FixReport(...); csv_files = sorted(dir_path.glob("*.csv"))
FixDirectoryGlob ==
    /\ dir_pc = "glob"
    /\ csv_files' = Sorted(GlobCsv(DOMAIN directory))
    /\ dir_pc' = "loop"
    /\ UNCHANGED <<directory, directory0, file_index, report, fix_file_calls>>
    /\ UNCHANGED <<cleanupVars, lineVars, eolVars, fixerVars, scriptVars,
                   guiVars, valVars, scanVars, fvVars>>

\* fix_directory, the body of "for csv_file in csv_files": fix_file, which
\* may meet a fault f of the file system, and report.results.append(result)
FixDirectoryFile ==
    /\ dir_pc = "loop"
    /\ file_index < Len(csv_files)
    /\ LET csv_file == csv_files[file_index + 1]
       IN  \E run \in {FixRun(directory[csv_file])}, f \in Faults :
             \E out \in {FixFileOutcome(run, directory[csv_file], create_backup,
                                        dry_run, f, clock)} :
                 /\ FaultCanHappen(run, create_backup, dry_run, f)
                 /\ directory' = [directory EXCEPT ![csv_file] = out.file]
                 /\ report' =
                       Append(report, [file_path |-> csv_file, result |-> out.result])
                 /\ fix_file_calls' =
                       Append(fix_file_calls, [file_path |-> csv_file, fault |-> f])
    /\ file_index' = file_index + 1
    /\ UNCHANGED <<directory0, dir_pc, csv_files>>
    /\ UNCHANGED <<cleanupVars, lineVars, eolVars, fixerVars, scriptVars,
                   guiVars, valVars, scanVars, fvVars>>

\* fix_directory: the loop is over, "return report"
FixDirectoryReturn ==
    /\ dir_pc = "loop"
    /\ file_index = Len(csv_files)
    /\ dir_pc' = "return"
    /\ UNCHANGED <<directory, directory0, csv_files, file_index, report,
                   fix_file_calls>>
    /\ UNCHANGED <<cleanupVars, lineVars, eolVars, fixerVars, scriptVars,
                   guiVars, valVars, scanVars, fvVars>>

DirNext == FixDirectoryGlob \/ FixDirectoryFile \/ FixDirectoryReturn

DirSpec == DirInit /\ [][DirNext]_vars

\* ------------------------------------------------------------------------
\* The V2LocKit main window: the toolbar actions and the worker threads
\* ------------------------------------------------------------------------

\* how many worker threads are started at most
MaxWorkers == 4

\* what a worker hands to its finished signal: None after an exception, a
\* report without findings, or a report with findings
Reports == {"None", "clean", "findings"}

\* the kinds of worker; FixWorker comes with dry_run True or False
WorkerKinds == {"ValidationWorker", "FixWorker(dry_run)", "FixWorker", "ScanWorker"}

\* the workers that write localisation files
Writes(w) == w.kind = "FixWorker"

\* MainWindow.__init__ and _create_actions: only Open Folder is enabled
GuiInit ==
    /\ current_path = FALSE
    /\ validate_action = FALSE
    /\ fix_action = FALSE
    /\ preview_action = FALSE
    /\ scan_action = FALSE
    /\ running = {}
    /\ signals = <<>>
    /\ started = 0
    /\ CleanupIdle
    /\ LineIdle
    /\ EolIdle
    /\ FixerIdle
    /\ ScriptIdle
    /\ DirIdle
    /\ ValIdle
    /\ ScanIdle
    /\ FvIdle

\* self.worker = ...Worker(...); self.worker.start()
StartWorker(kind) ==
    /\ started < MaxWorkers
    /\ started' = started + 1
    /\ running' = running \cup {[id |-> started + 1, kind |-> kind]}

\* _on_open_folder, a folder having been picked in the dialog
OnOpenFolder ==
    /\ current_path' = TRUE
    /\ validate_action' = TRUE
    /\ scan_action' = TRUE
    /\ UNCHANGED <<fix_action, preview_action, running, signals, started>>
    /\ UNCHANGED <<cleanupVars, lineVars, eolVars, fixerVars, scriptVars,
                   dirVars, valVars, scanVars, fvVars>>

\* _on_validate, triggered by validate_action
OnValidate ==
    /\ validate_action
    /\ current_path
    /\ validate_action' = FALSE
    /\ StartWorker("ValidationWorker")
    /\ UNCHANGED <<current_path, fix_action, preview_action, scan_action, signals>>
    /\ UNCHANGED <<cleanupVars, lineVars, eolVars, fixerVars, scriptVars,
                   dirVars, valVars, scanVars, fvVars>>

\* _on_preview_fix, triggered by preview_action
OnPreviewFix ==
    /\ preview_action
    /\ current_path
    /\ StartWorker("FixWorker(dry_run)")
    /\ UNCHANGED <<current_path, validate_action, fix_action, preview_action,
                   scan_action, signals>>
    /\ UNCHANGED <<cleanupVars, lineVars, eolVars, fixerVars, scriptVars,
                   dirVars, valVars, scanVars, fvVars>>

\* _on_fix, triggered by fix_action and confirmed with Yes
OnFix ==
    /\ fix_action
    /\ current_path
    /\ fix_action' = FALSE
    /\ StartWorker("FixWorker")
    /\ UNCHANGED <<current_path, validate_action, preview_action, scan_action,
                   signals>>
    /\ UNCHANGED <<cleanupVars, lineVars, eolVars, fixerVars, scriptVars,
                   dirVars, valVars, scanVars, fvVars>>

\* _on_scan_missing, triggered by scan_action
OnScanMissing ==
    /\ scan_action
    /\ current_path
    /\ scan_action' = FALSE
    /\ StartWorker("ScanWorker")
    /\ UNCHANGED <<current_path, validate_action, fix_action, preview_action,
                   signals>>
    /\ UNCHANGED <<cleanupVars, lineVars, eolVars, fixerVars, scriptVars,
                   dirVars, valVars, scanVars, fvVars>>

\* run() of a worker comes to its end: self.finished.emit(report), queued
\* for the GUI thread
WorkerFinishes ==
    /\ \E w \in running, r \in Reports :
         /\ running' = running \ {w}
         /\ signals' = Append(signals, [kind |-> w.kind, report |-> r])
    /\ UNCHANGED <<current_path, validate_action, fix_action, preview_action,
                   scan_action, started>>
    /\ UNCHANGED <<cleanupVars, lineVars, eolVars, fixerVars, scriptVars,
                   dirVars, valVars, scanVars, fvVars>>

\* _on_validation_complete(report)
OnValidationComplete ==
    /\ signals # <<>>
    /\ Head(signals).kind = "ValidationWorker"
    /\ signals' = Tail(signals)
    /\ validate_action' = TRUE
    /\ fix_action' =
          IF Head(signals).report = "None" THEN fix_action
          ELSE Head(signals).report = "findings"
    /\ preview_action' =
          IF Head(signals).report = "None" THEN preview_action ELSE TRUE
    /\ UNCHANGED <<current_path, scan_action, running, started>>
    /\ UNCHANGED <<cleanupVars, lineVars, eolVars, fixerVars, scriptVars,
                   dirVars, valVars, scanVars, fvVars>>

\* _on_fix_preview_complete(report)
OnFixPreviewComplete ==
    /\ signals # <<>>
    /\ Head(signals).kind = "FixWorker(dry_run)"
    /\ signals' = Tail(signals)
    /\ UNCHANGED <<current_path, validate_action, fix_action, preview_action,
                   scan_action, running, started>>
    /\ UNCHANGED <<cleanupVars, lineVars, eolVars, fixerVars, scriptVars,
                   dirVars, valVars, scanVars, fvVars>>

\* _on_fix_complete(report): unless the report is None it calls
\* self._on_validate(), whether or not validate_action is enabled
OnFixComplete ==
    /\ signals # <<>>
    /\ Head(signals).kind = "FixWorker"
    /\ signals' = Tail(signals)
    /\ fix_action' = TRUE
    /\ IF Head(signals).report # "None" /\ current_path
       THEN /\ validate_action' = FALSE
            /\ StartWorker("ValidationWorker")
       ELSE UNCHANGED <<validate_action, running, started>>
    /\ UNCHANGED <<current_path, preview_action, scan_action>>
    /\ UNCHANGED <<cleanupVars, lineVars, eolVars, fixerVars, scriptVars,
                   dirVars, valVars, scanVars, fvVars>>

\* _on_scan_complete(report)
OnScanComplete ==
    /\ signals # <<>>
    /\ Head(signals).kind = "ScanWorker"
    /\ signals' = Tail(signals)
    /\ scan_action' = TRUE
    /\ UNCHANGED <<current_path, validate_action, fix_action, preview_action,
                   running, started>>
    /\ UNCHANGED <<cleanupVars, lineVars, eolVars, fixerVars, scriptVars,
                   dirVars, valVars, scanVars, fvVars>>

GuiNext ==
    \/ OnOpenFolder
    \/ OnValidate
    \/ OnPreviewFix
    \/ OnFix
    \/ OnScanMissing
    \/ WorkerFinishes
    \/ OnValidationComplete
    \/ OnFixPreviewComplete
    \/ OnFixComplete
    \/ OnScanComplete

GuiSpec == GuiInit /\ [][GuiNext]_vars

\* ------------------------------------------------------------------------
\* Validator.validate_directory called on a directory
\* ------------------------------------------------------------------------

\* Validator(): all_keys is empty
ValInit ==
    /\ val_directory \in ValDirectories
    /\ all_keys = <<>>
    /\ val_pc = "idle"
    /\ val_csv_files = <<>>
    /\ val_index = 0
    /\ cross_file_issues = <<>>
    /\ validate_calls = 0
    /\ direct_calls = 0
    /\ CleanupIdle
    /\ LineIdle
    /\ EolIdle
    /\ FixerIdle
    /\ ScriptIdle
    /\ DirIdle
    /\ GuiIdle
    /\ ScanIdle
    /\ FvIdle

\* validate_file(file_path) called from outside validate_directory, on any
\* file of the directory
ValidateFile ==
    /\ val_pc \in {"idle", "done"}
    /\ direct_calls < MaxDirectCalls
    /\ \E file_path \in DOMAIN val_directory :
           all_keys' = validate_file(all_keys, file_path,
                                     Split(ValDecode(val_directory[file_path]), LF), 1)
    /\ direct_calls' = direct_calls + 1
    /\ UNCHANGED <<val_directory, val_pc, val_csv_files, val_index,
                   cross_file_issues, validate_calls>>
    /\ UNCHANGED <<cleanupVars, lineVars, eolVars, fixerVars, scriptVars,
                   dirVars, guiVars, scanVars, fvVars>>

\* validate_directory: report = ValidationReport(); self.all_keys.clear();
\* csv_files = sorted(dir_path.glob("*.csv"))
ValidateDirectoryGlob ==
    /\ val_pc \in {"idle", "done"}
    /\ validate_calls < MaxValidateCalls
    /\ all_keys' = ClearKeys(all_keys)
    /\ val_csv_files' = Sorted(GlobCsv(DOMAIN val_directory))
    /\ val_index' = 0
    /\ cross_file_issues' = <<>>
    /\ val_pc' = "loop"
    /\ validate_calls' = validate_calls + 1
    /\ UNCHANGED <<val_directory, direct_calls>>
    /\ UNCHANGED <<cleanupVars, lineVars, eolVars, fixerVars, scriptVars,
                   dirVars, guiVars, scanVars, fvVars>>

\* validate_directory, the body of "for csv_file in csv_files"
ValidateDirectoryFile ==
    /\ val_pc = "loop"
    /\ val_index < Len(val_csv_files)
    /\ LET csv_file == val_csv_files[val_index + 1]
       IN  all_keys' = validate_file(all_keys, csv_file,
                                     Split(ValDecode(val_directory[csv_file]), LF), 1)
    /\ val_index' = val_index + 1
    /\ UNCHANGED <<val_directory, val_pc, val_csv_files, cross_file_issues,
                   validate_calls, direct_calls>>
    /\ UNCHANGED <<cleanupVars, lineVars, eolVars, fixerVars, scriptVars,
                   dirVars, guiVars, scanVars, fvVars>>

\* validate_directory, "# Detect cross-file duplicates" and "return report"
ValidateDirectoryReturn ==
    /\ val_pc = "loop"
    /\ val_index = Len(val_csv_files)
    /\ cross_file_issues' = CrossFileIssues(all_keys)
    /\ val_pc' = "done"
    /\ UNCHANGED <<val_directory, all_keys, val_csv_files, val_index,
                   validate_calls, direct_calls>>
    /\ UNCHANGED <<cleanupVars, lineVars, eolVars, fixerVars, scriptVars,
                   dirVars, guiVars, scanVars, fvVars>>

ValNext ==
    \/ ValidateFile
    \/ ValidateDirectoryGlob
    \/ ValidateDirectoryFile
    \/ ValidateDirectoryReturn

ValSpec == ValInit /\ [][ValNext]_vars

\* ------------------------------------------------------------------------
\* Scanner.find_missing called on a mod
\* ------------------------------------------------------------------------

\* Scanner(mod_path).find_missing(existing_keys): report = MissingKeysReport()
ScanInit ==
    /\ mod_files \in GameFiles
    /\ existing_keys \in ExistingKeySets
    /\ scan_pc = "events"
    /\ missing_keys = EmptyBag
    /\ CleanupIdle
    /\ LineIdle
    /\ EolIdle
    /\ FixerIdle
    /\ ScriptIdle
    /\ DirIdle
    /\ GuiIdle
    /\ ValIdle
    /\ FvIdle

\* find_missing, "# Scan events"
FindMissingEvents ==
    /\ scan_pc = "events"
    /\ missing_keys' =
           missing_keys (+)
           SetToBag(MissingOf(scan_events(mod_files), existing_keys, "event",
                              mod_files.events))
    /\ scan_pc' = "decisions"
    /\ UNCHANGED <<mod_files, existing_keys>>
    /\ UNCHANGED <<cleanupVars, lineVars, eolVars, fixerVars, scriptVars,
                   dirVars, guiVars, valVars, fvVars>>

\* find_missing, "# Scan decisions"
FindMissingDecisions ==
    /\ scan_pc = "decisions"
    /\ missing_keys' =
           missing_keys (+)
           SetToBag(MissingOf(scan_decisions(mod_files), existing_keys,
                              "decision", mod_files.decisions))
    /\ scan_pc' = "modifiers"
    /\ UNCHANGED <<mod_files, existing_keys>>
    /\ UNCHANGED <<cleanupVars, lineVars, eolVars, fixerVars, scriptVars,
                   dirVars, guiVars, valVars, fvVars>>

\* find_missing, "# Scan modifiers": source_file is common_path
FindMissingModifiers ==
    /\ scan_pc = "modifiers"
    /\ missing_keys' =
           missing_keys (+)
           SetToBag(MissingOf(scan_modifiers(mod_files), existing_keys,
                              "modifier", NoDirectory))
    /\ scan_pc' = "return"
    /\ UNCHANGED <<mod_files, existing_keys>>
    /\ UNCHANGED <<cleanupVars, lineVars, eolVars, fixerVars, scriptVars,
                   dirVars, guiVars, valVars, fvVars>>

\* find_missing, "return report"
FindMissingReturn ==
    /\ scan_pc = "return"
    /\ scan_pc' = "done"
    /\ UNCHANGED <<mod_files, existing_keys, missing_keys>>
    /\ UNCHANGED <<cleanupVars, lineVars, eolVars, fixerVars, scriptVars,
                   dirVars, guiVars, valVars, fvVars>>

ScanNext ==
    \/ FindMissingEvents
    \/ FindMissingDecisions
    \/ FindMissingModifiers
    \/ FindMissingReturn

ScanSpec == ScanInit /\ [][ScanNext]_vars

\* ------------------------------------------------------------------------
\* A file fixed by Fixer.fix_file and validated by Validator.validate_file,
\* as Fix All does: FixWorker(path, dry_run=False), then _on_validate
\* ------------------------------------------------------------------------

\* how many times the file is fixed before it is validated
MaxFixesBefore == 2

FvInit ==
    /\ fv_file \in InitialFiles
    /\ fv_file0 = fv_file
    /\ fv_pc = "start"
    /\ fv_fixes = 0
    /\ fv_result = NewResult
    /\ fv_readable = TRUE
    /\ fv_validation = NoValidation
    /\ CleanupIdle
    /\ LineIdle
    /\ EolIdle
    /\ FixerIdle
    /\ ScriptIdle
    /\ DirIdle
    /\ GuiIdle
    /\ ValIdle
    /\ ScanIdle

\* FixWorker.run: Fixer(create_backup=True, dry_run=False) and fix_file on
\* the file, with a fault f of the file system
FvFixFile ==
    /\ fv_pc \in {"start", "fixed"}
    /\ fv_fixes < MaxFixesBefore
    /\ \E run \in {FixRun(fv_file)}, f \in Faults :
         \E out \in {FixFileOutcome(run, fv_file, TRUE, FALSE, f, 1)} :
             /\ FaultCanHappen(run, TRUE, FALSE, f)
             /\ fv_result' = out.result
             /\ fv_file' = out.file
    /\ fv_pc' = "fixed"
    /\ fv_fixes' = fv_fixes + 1
    /\ UNCHANGED <<fv_file0, fv_readable, fv_validation>>
    /\ UNCHANGED <<cleanupVars, lineVars, eolVars, fixerVars, scriptVars,
                   dirVars, guiVars, valVars, scanVars>>

\* Validator().validate_file(file_path) on the file as it is on disk
FvValidateFile ==
    /\ fv_pc \in {"start", "fixed"}
    /\ \E readable \in BOOLEAN :
          /\ fv_readable' = readable
          /\ fv_validation' = FileValidationResult(fv_file, readable)
    /\ fv_pc' = "validated"
    /\ UNCHANGED <<fv_file, fv_file0, fv_fixes, fv_result>>
    /\ UNCHANGED <<cleanupVars, lineVars, eolVars, fixerVars, scriptVars,
                   dirVars, guiVars, valVars, scanVars>>

FvNext ==
    \/ FvFixFile
    \/ FvValidateFile

FixValSpec == FvInit /\ [][FvNext]_vars

\* ------------------------------------------------------------------------
\* Properties of the cleanup
\* ------------------------------------------------------------------------

\* the position of a file in files_with_priority (1 = highest priority)
PriorityIndex(f) ==
    CHOOSE n \in 1..Len(FilesWithPriority) : FilesWithPriority[n] = f

\* the files of directory fs that define key k
DefinedIn(fs, k) == {f \in FileNames : InSeq(k, LoadAllKeys(fs)[f])}

\* every key some file of fs defines
AllKeys(fs) == UNION {Range(LoadAllKeys(fs)[f]) : f \in FileNames}

\* the file of S that comes last when S is sorted in descending order
LastUnderDescending(S) == CHOOSE f \in S : \A g \in S \ {f} : LexLess(f, g)

\* the file of S that comes first when S is sorted in descending order
FirstUnderDescending(S) == CHOOSE f \in S : \A g \in S \ {f} : LexLess(g, f)

\* the keys of file f that a higher-priority file (earlier in
\* files_with_priority) holds as well
AllDeadOf(fk, f) ==
    {k \in Range(fk[f]) :
        \E h \in FileNames : PriorityIndex(h) < PriorityIndex(f) /\ InSeq(k, fk[h])}

\* C1: after the cleanup every key defined in some file survives in exactly
\* one file, the defining file that sorts last under descending filename order.
C1_SurvivorIsLastUnderDescending ==
    pc = "done" =>
        \A k \in AllKeys(files0) :
            DefinedIn(files, k) = {LastUnderDescending(DefinedIn(files0, k))}

\* C2: when the loop has stopped no file holds a key that a higher-priority
\* file holds too, and the final verification finds no dead key.
C2_FixedPointReached ==
    pc = "done" =>
        /\ NoDeadKeys(dead_keys)
        /\ \A f \in FileNames : AllDeadOf(LoadAllKeys(files), f) = {}

\* C3: one call of find_all_dead_keys returns for every file all of its keys
\* that occur in a higher-priority file, and analyze_duplicates lists the same
\* set.
C3_FindsAllDeadKeys ==
    /\ (iteration > 0 /\ pc # "find") =>
          \A f \in FileNames : dead_keys[f] = AllDeadOf(file_keys, f)
    /\ duplicates # NoReport =>
          \A f \in FileNames :
              {d[1] : d \in Range(duplicates[f])} = AllDeadOf(report_keys, f)

\* the same files with the lines of each in the opposite order, so that the
\* dead keys are discovered in another order
ReverseLines(fs) ==
    [f \in FileNames |-> [i \in 1..Len(fs[f]) |-> fs[f][Len(fs[f]) + 1 - i]]]

\* C4: the fixed point does not depend on the order in which the dead keys
\* are discovered: the cleanup of the same records listed in the opposite
\* order leaves the same lines in every file.
C4_Confluent ==
    pc = "done" =>
        \A f \in FileNames :
            Range(files[f]) = Range(MainLoop(ReverseLines(files0))[f])

\* the number of (file, key) entries of a directory
TotalKeys(fs) ==
    SumOver(FileNames, [f \in FileNames |-> Len(LoadAllKeys(fs)[f])])

\* C5: the loop of main() terminates, after at most as many iterations as
\* there are keys in all files, plus the last iteration that removes nothing.
C5_LoopTerminates ==
    /\ <>(pc = "done")
    /\ [](iteration <= TotalKeys(files0) + 1)

\* a run of three iterations: two that removed keys and the one that stopped
C5_Witness == pc = "done" /\ iteration = 3 /\ total_removed >= 2

\* ------------------------------------------------------------------------
\* Properties of the column normalizers
\* ------------------------------------------------------------------------

C7_NormalizeIdempotent ==
    applications >= 2 => current_line = line_before

\* the second application ran on a line the first one had to change
C7_Witness ==
    /\ applications = 2
    /\ normalizer = "fix_csv_file"
    /\ current_line = line_before
    /\ Len(Split(current_line, ";")) = 19
    /\ Split(current_line, ";")[1] = X

\* ------------------------------------------------------------------------
\* Properties of the line-ending fixers
\* ------------------------------------------------------------------------

\* C8: a line-ending fixer run on its own output changes nothing: the second
\* and every later run of fix_file_line_endings, of fix_line_endings
\* (fix_line_endings.py) and of fix_line_endings
\* (fix_localisation_encoding.py) leaves the bytes of the file as they were
C8_LineEndingsIdempotent ==
    runs >= 2 => eol_content = content_before

\* a second run on a file the first run had to rewrite
C8_Witness ==
    /\ runs = 2
    /\ content0 # content_before
    /\ eol_content = content_before
    /\ \E i \in 1..Len(content0) : content0[i] = CR

\* every LF of s follows exactly two CRs and every CR of s belongs to the
\* two CRs in front of an LF
BreaksAreCRCRLF(s) ==
    /\ \A i \in 1..Len(s) :
          s[i] = LF => /\ i >= 3
                       /\ s[i - 1] = CR
                       /\ s[i - 2] = CR
                       /\ (i >= 4 => s[i - 3] # CR)
    /\ \A i \in 1..Len(s) :
          s[i] = CR => \/ (i + 1 <= Len(s) /\ s[i + 1] = LF)
                       \/ (i + 2 <= Len(s) /\ s[i + 1] = CR /\ s[i + 2] = LF)

\* C9: after fix_file_line_endings every line break of the file is exactly
\* \r\r\n, whatever mix of LF, CRLF, lone CR and \r\r\n the file had: no lone
\* CR is left and no LF follows fewer or more than two CRs
C9_EveryBreakIsCRCRLF ==
    (eol_fixer = "fix_file_line_endings" /\ runs >= 1) => BreaksAreCRCRLF(eol_content)

\* the lines of s end in LF, CRLF or \r\r\n: every CR of s is the CR of a
\* CRLF or one of the two CRs of a \r\r\n
MixOfLfCrlfCrCrLf(s) ==
    \A i \in 1..Len(s) :
        s[i] = CR => \/ (i + 1 <= Len(s) /\ s[i + 1] = LF /\
                           (i >= 3 /\ s[i - 1] = CR => s[i - 2] # CR))
                     \/ (i + 2 <= Len(s) /\ s[i + 1] = CR /\ s[i + 2] = LF /\
                           (i >= 2 => s[i - 1] # CR))

\* C9 as amended: after fix_file_line_endings on a file whose lines end in any
\* mix of LF, CRLF and \r\r\n every line break is exactly \r\r\n; a file whose
\* only line breaks are lone CRs is left as it is
C9_EveryLfBreakIsCRCRLF ==
    (eol_fixer = "fix_file_line_endings" /\ runs >= 1) =>
        /\ MixOfLfCrlfCrCrLf(content_before) => BreaksAreCRCRLF(eol_content)
        /\ ~Contains(content_before, LF) => eol_content = content_before /\ ~wrote

\* a file with a line that ends in LF and a line that ends in CRLF, rewritten
C9_Witness ==
    /\ eol_fixer = "fix_file_line_endings"
    /\ runs = 1
    /\ MixOfLfCrlfCrCrLf(content0)
    /\ ContainsSub(content0, <<"a", LF>>)
    /\ ContainsSub(content0, <<"a", CR, LF>>)
    /\ wrote
    /\ BreaksAreCRCRLF(eol_content)

\* C19: fix_line_endings of fix_localisation_encoding.py normalizes every line
\* ending to CRLF: after the call each LF byte of the file is preceded by
\* exactly one CR byte
C19_EveryLfAfterOneCr ==
    (eol_fixer = "fix_line_endings.crlf" /\ runs >= 1) =>
        \A i \in 1..Len(eol_content) :
            eol_content[i] = LF =>
                /\ i > 1
                /\ eol_content[i - 1] = CR
                /\ i > 2 => eol_content[i - 2] # CR

\* ------------------------------------------------------------------------
\* Properties of Fixer.fix_file
\* ------------------------------------------------------------------------

C15_BackupBeforeWrite ==
    (create_backup /\ ~dry_run /\ fix_calls >= 1) =>
        /\ (written \/ disk # disk_before) =>
              /\ result.backup_path # 0
              /\ [stamp |-> result.backup_path, bytes |-> disk_before] \in backups
        /\ fault = "backup" =>
              (~written /\ disk = disk_before /\ ~result.success)

\* a call with create_backup=True and dry_run=False overwrote the file with
\* other bytes
C15_Witness ==
    /\ create_backup
    /\ ~dry_run
    /\ written
    /\ disk # disk_before
    /\ result.backup_path # 0

\* the bytes are in the target on-disk format: non-empty lines, each
\* followed by \r\r\n, and no other CR or LF byte
TargetLineFormat(b) ==
    /\ b # <<>> => b[Len(b)] = LF
    /\ \A i \in 1..Len(b) :
          /\ b[i] = LF =>
                /\ i >= 4
                /\ b[i - 1] = CR
                /\ b[i - 2] = CR
                /\ b[i - 3] \notin {CR, LF}
          /\ b[i] = CR =>
                /\ i < Len(b)
                /\ \/ b[i + 1] = LF
                   \/ (b[i + 1] = CR /\ i + 1 < Len(b) /\ b[i + 2] = LF)

\* C21: whenever Fixer.fix_file writes a file, the written content consists
\* only of non-empty lines, each terminated by exactly \r\r\n, with no other
\* CR or LF byte and no empty line
C21_WritesTargetFormat == written => TargetLineFormat(disk)

\* whenever Fixer.fix_file writes a file that holds a line that is not blank,
\* the written content is in the target on-disk format
RowsWrittenInTargetFormat ==
    (written /\ \E i \in 1..Len(decoded_text) :
                    decoded_text[i] \notin Whitespace \cup {CR, LF}) =>
        TargetLineFormat(disk)

\* the lines of a file in the target line format, without their \r\r\n
TargetLines(b) ==
    LET ended == Split(b, LF)
    IN  [n \in 1..(Len(ended) - 1) |-> SubSeq(ended[n], 1, Len(ended[n]) - 2)]

\* the file is in the target format: bytes valid as Windows-1252 and no BOM,
\* at least one line, every line not empty, terminated by \r\r\n, with 19
\* fields and 'x' in field 15
TargetFormat(b) ==
    /\ b # <<>>
    /\ ~StartsWith(b, BOM)
    /\ Cp1252DecodeStrict(b).ok
    /\ TargetLineFormat(b)
    /\ \A n \in 1..Len(TargetLines(b)) :
          LET parts == Split(TargetLines(b)[n], ";")
          IN  Len(parts) = 19 /\ parts[15] = X

\* the call left the file alone: no change reported, nothing written, no
\* backup made
LeftAlone ==
    /\ result.changes_made = <<>>
    /\ ~written
    /\ disk = disk_before
    /\ result.backup_path = 0
    /\ backups = {}

\* C23: a file already in the target format is left alone by Fixer.fix_file:
\* changes_made is empty, the file is not rewritten and no backup is created
C23_TargetFormatLeftAlone ==
    (fix_calls = 1 /\ TargetFormat(disk0)) => LeftAlone

\* a file in the target format whose bytes are not valid UTF-8 is left alone
\* by Fixer.fix_file
NonUtf8TargetFormatLeftAlone ==
    (fix_calls = 1 /\ TargetFormat(disk0) /\ ~Utf8Decode(disk0).ok) => LeftAlone

\* a file in the target format whose bytes are not valid UTF-8 went through
\* a call
NonUtf8TargetFormatFixed ==
    fix_calls = 1 /\ TargetFormat(disk0) /\ ~Utf8Decode(disk0).ok /\ ~dry_run

\* a call of Fixer.fix_file right after one that wrote the file reports no
\* change
SecondRunReportsNoChange ==
    [][(written /\ result.success) => result'.changes_made = <<>>]_vars

\* ------------------------------------------------------------------------
\* Properties of the single-file scripts
\* ------------------------------------------------------------------------

\* convert_utf8_to_ansi was called on a UTF-8 file whose text, past a leading
\* BOM, holds a character that Windows-1252 has no byte for
MetUnencodable ==
    /\ script = "convert_utf8_to_ansi"
    /\ script_calls >= 1
    /\ Utf8Decode(script_before).ok
    /\ HasUnencodable(RemoveBom(UniversalNewlines(Utf8Decode(script_before).text)))

\* C11: when convert_utf8_to_ansi, writing over its input file, meets a
\* character that cannot be encoded in Windows-1252, it returns False and the
\* content of the file on disk is the same as before the call
C11_AbortLeavesFile ==
    MetUnencodable => (~script_return.success /\ script_disk = script_before)

\* C14: in dry-run mode nothing on disk changes: Fixer.fix_file,
\* LocalisationFixerV2.fix_file, fix_csv_file and fix_text_csv_duplicates,
\* called with dry_run=True, neither modify the file nor make a backup
C14_DryRunChangesNothing ==
    (script_dry_run /\ script_calls >= 1) =>
        (script_disk = script_before /\ script_backups = {})

\* Fixer.fix_file was called in dry-run mode on a file it reports changes
\* for, and asked to make backups
C14_Witness ==
    /\ script = "Fixer.fix_file"
    /\ script_dry_run
    /\ ~script_no_backup
    /\ script_calls >= 1
    /\ script_return.success
    /\ script_return.count > 0

\* the lines of a file, each with its line ending
FileLines(on_disk) == LinesKeepEnds(on_disk, <<>>)

\* no key is the key of two keyed lines
NoKeyTwice(lines) ==
    \A i, j \in 1..Len(lines) :
        (i < j /\ IsKeyed(lines[i]) /\ IsKeyed(lines[j])) =>
            KeyOf(lines[i]) # KeyOf(lines[j])

\* the lines without every keyed line whose key an earlier keyed line has,
\* in their order
FirstOccurrences(lines) ==
    LET first == {i \in 1..Len(lines) :
                     IsKeyed(lines[i]) =>
                         \A j \in 1..(i - 1) :
                             ~(IsKeyed(lines[j]) /\ KeyOf(lines[j]) = KeyOf(lines[i]))}
        nth(k) == CHOOSE i \in first : Cardinality({j \in first : j < i}) = k - 1
    IN  [k \in 1..Cardinality(first) |-> lines[nth(k)]]

\* fix_text_csv_duplicates ran without dry-run
RanDuplicateRemover ==
    script = "fix_text_csv_duplicates" /\ ~script_dry_run /\ script_calls >= 1

\* what C16 states of the file and of the value returned after the run
DuplicatesRemoved ==
    /\ NoKeyTwice(FileLines(script_disk))
    /\ FileLines(script_disk) = FirstOccurrences(FileLines(script_before))
    /\ script_return.count =
           Len(FileLines(script_before)) - Len(FileLines(script_disk))

InFormat(parts) ==
    /\ Len(parts) = 19
    /\ parts[15] = X
    /\ \A n \in 16..19 : parts[n] = <<>>

\* C18: after fix_file_column_count returns success, every non-empty line of
\* the file has exactly 19 semicolon-separated fields, its 15th field is 'x'
\* and its fields 16 to 19 are empty
C18_NineteenColumns ==
    (/\ script = "fix_file_column_count"
     /\ script_calls >= 1
     /\ script_return.success) =>
        LET lines == Split(DecodeCp1252OrUtf8(script_disk), LF)
        IN  \A n \in 1..Len(lines) :
                Strip(lines[n]) # <<>> =>
                    InFormat(Split(RStripNewlines(lines[n]), ";"))

\* ------------------------------------------------------------------------
\* Properties of Fixer.fix_directory
\* ------------------------------------------------------------------------

\* the *.csv files the directory held when fix_directory was called
CsvNames == {n \in DOMAIN directory0 : EndsWith(n, <<46, 99, 115, 118>>)}

\* the files fix_file was called on, in the order of the calls
CalledOn == [i \in DOMAIN fix_file_calls |-> fix_file_calls[i].file_path]

\* whether the i-th call of fix_file met a read, decode, backup or write error
CallFailed(i) ==
    \/ fix_file_calls[i].fault # "none"
    \/ ~FixRun(directory0[fix_file_calls[i].file_path]).ok

\* C12: fix_directory calls fix_file on every *.csv file of the directory
\* exactly once, in ascending filename order, and returns one FixResult per
\* file in that order; a read, decode, backup or write error on a file is
\* recorded in that file's result (success False, error set) and does not
\* keep the remaining files from being processed
C12_ErrorsAreLocal ==
    dir_pc = "return" =>
        /\ Range(CalledOn) = CsvNames
        /\ \A i, j \in DOMAIN CalledOn : i < j => LexLess(CalledOn[i], CalledOn[j])
        /\ [i \in DOMAIN report |-> report[i].file_path] = CalledOn
        /\ \A i \in DOMAIN report :
              CallFailed(i) <=>
                 (~report[i].result.success /\ report[i].result.error # "None")

\* fix_directory returned after a failure on its first file, having fixed a
\* later one
C12_Witness ==
    /\ dir_pc = "return"
    /\ Len(report) = 3
    /\ ~report[1].result.success
    /\ report[3].result.success
    /\ directory[csv_files[3]] # directory0[csv_files[3]]

\* ------------------------------------------------------------------------
\* Properties of the main window
\* ------------------------------------------------------------------------

\* a worker that writes the localisation files runs next to another worker,
\* which reads them
ReadWhileWritten ==
    \E w1, w2 \in running : w1 # w2 /\ Writes(w1)

\* C13: at any time at most one background worker (ValidationWorker,
\* FixWorker or ScanWorker) is running, so no localisation file is read by
\* one operation while another operation is writing it
C13_AtMostOneWorker ==
    Cardinality(running) <= 1 /\ ~ReadWhileWritten

\* ------------------------------------------------------------------------
\* Properties of Validator.validate_directory
\* ------------------------------------------------------------------------

\* the occurrences (file, line, key) of non-comment keys in the CSV files of
\* the directory
KeyOccurrences ==
    UNION {LET lines == Split(ValDecode(val_directory[f]), LF)
           IN  {[file_path |-> f, line_number |-> n, key |-> ValKey(lines[n])] :
                   n \in {n \in 1..Len(lines) : ValKey(lines[n]) # <<>>}} :
           f \in GlobCsv(DOMAIN val_directory)}

\* the occurrences that report.cross_file_issues holds a warning for
ReportedOccurrences ==
    {[file_path |-> cross_file_issues[n].file_path,
      line_number |-> cross_file_issues[n].line_number,
      key |-> cross_file_issues[n].context] :
        n \in 1..Len(cross_file_issues)}

\* C17: validate_directory reports a DUPLICATE_KEY_CROSS_FILE warning for an
\* occurrence (file F, line L) of a non-comment key K if and only if K also
\* occurs in a file sorting before F; keys confined to one file produce no
\* cross-file issue, and calls made earlier on the Validator do not matter
C17_CrossFileDuplicates ==
    val_pc = "done" =>
        ReportedOccurrences =
            {o \in KeyOccurrences :
                \E p \in KeyOccurrences :
                    p.key = o.key /\ LexLess(p.file_path, o.file_path)}

\* validate_directory returned cross-file warnings on a Validator that
\* validate_file had been called on, for a directory where one file holds a
\* key twice
C17_Witness ==
    /\ val_pc = "done"
    /\ direct_calls >= 1
    /\ cross_file_issues # <<>>
    /\ \E o, p \in KeyOccurrences :
          /\ o.key = p.key
          /\ o.file_path = p.file_path
          /\ o.line_number # p.line_number

\* ------------------------------------------------------------------------
\* Properties of Scanner.find_missing
\* ------------------------------------------------------------------------

\* the keys the game files use: ScanResult.all_keys of scan_all()
UsedKeys ==
    scan_events(mod_files) \cup scan_decisions(mod_files) \cup
    scan_modifiers(mod_files)

\* C20: find_missing reports exactly the used keys that are not in
\* existing_keys, each of them once, so that total_missing, the length of
\* missing_keys, is the number of distinct missing keys
C20_EachMissingKeyOnce ==
    scan_pc = "done" =>
        /\ {r.key : r \in BagToSet(missing_keys)} = UsedKeys \ existing_keys
        /\ BagCardinality(missing_keys) = Cardinality(UsedKeys \ existing_keys)

\* ------------------------------------------------------------------------
\* Properties of a file fixed and validated
\* ------------------------------------------------------------------------

\* no two lines of a file in the target line format have the same key
NoRepeatedKey(b) ==
    \A m, n \in 1..Len(TargetLines(b)) :
        m # n => Strip(Split(TargetLines(b)[m], ";")[1]) #
                 Strip(Split(TargetLines(b)[n], ";")[1])

\* validate_file ran on the file as it was at first, and could read it
ValidatedUnfixed == fv_pc = "validated" /\ fv_fixes = 0 /\ fv_readable

\* C24: Validator.validate_file reports no issue at all, no error and no
\* warning, for a file in the target format without a repeated key, pure
\* ASCII or not
C24_TargetFormatNoIssue ==
    (ValidatedUnfixed /\ TargetFormat(fv_file) /\ NoRepeatedKey(fv_file)) =>
        fv_validation.issues = <<>>

\* Validator.validate_file reports no issue for a file in the target format
\* without a repeated key that holds a byte above 0x7F
HighByteTargetFormatNoIssue ==
    (/\ ValidatedUnfixed
     /\ TargetFormat(fv_file)
     /\ NoRepeatedKey(fv_file)
     /\ \E n \in 1..Len(fv_file) : fv_file[n] \in NonAsciiBytes) =>
        fv_validation.issues = <<>>

\* a file of two lines in the target format that holds a byte above 0x7F was
\* validated
HighByteTargetFormatValidated ==
    /\ ValidatedUnfixed
    /\ TargetFormat(fv_file)
    /\ NoRepeatedKey(fv_file)
    /\ Len(TargetLines(fv_file)) = 2
    /\ \E n \in 1..Len(fv_file) : fv_file[n] \in NonAsciiBytes

\* validate_file ran, and could read the file, after fix_file returned
\* success
ValidatedFixed ==
    fv_pc = "validated" /\ fv_fixes >= 1 /\ fv_result.success /\ fv_readable

\* validate_file reported no issue of severity ERROR
NoErrorIssue ==
    \A n \in 1..Len(fv_validation.issues) :
        fv_validation.issues[n].severity # "ERROR"

\* C22: after Fixer.fix_file returns success (dry_run False) for a file,
\* Validator.validate_file on that file reports no issue of severity ERROR
C22_NoErrorAfterFix == ValidatedFixed => NoErrorIssue

\* after a fix_file that reported a change and returned success,
\* validate_file reports no issue of severity ERROR
NoErrorAfterRewrite ==
    (ValidatedFixed /\ fv_result.changes_made # <<>>) => NoErrorIssue

\* a file that had a column count error was rewritten and then validated
RewrittenValidated ==
    /\ ValidatedFixed
    /\ fv_result.changes_made # <<>>
    /\ fv_file # fv_file0
    /\ \E n \in 1..Len(FileValidationResult(fv_file0, TRUE).issues) :
          FileValidationResult(fv_file0, TRUE).issues[n].issue_type = "COLUMN_COUNT"

====
